---- MODULE Spec2Model ----
(***************************************************************************)
(* Open Media Management: the asset/collection index store                 *)
(* (src/src/lib/metadata.ts), the FFmpeg job helpers (src/src/lib/osc.ts)  *)
(* and the proxy pipeline of the server (src/unnamed/part_000).            *)
(*                                                                         *)
(* Strings that the code inspects character by character (titles,          *)
(* descriptions, tags) are tuples of one-character strings; a code point   *)
(* of the extended Latin range is written "U+00C9".                        *)
(***************************************************************************)
EXTENDS Integers, Sequences, FiniteSets, TLC

\* ------------------------------------------------------------------ bounds

\* how many assets createAsset may create in one behaviour
MaxAssets == 2
\* how many collections createCollection may create in one behaviour
MaxColls == 1
\* the calls explored keep every tag score within -MaxScore..MaxScore
MaxScore == 2
\* the calls explored keep every assetCount within 0..MaxCount
MaxCount == 2
\* maxWaitMs of waitForFfmpegJob, counted in poll intervals (sleeps)
MaxWaitPolls == 2
\* how far the clock runs between the calls that stamp records
MaxClock == 2

\* the largest number of assets a listing is cut from
MaxListed == 101

\* ------------------------------------------------------------ the keyspace

VARIABLES
  redis,        \* the Valkey keyspace of one tenant
  uuid,         \* how many ids crypto.randomUUID has issued, per entity kind
  last,         \* the call that returned last and what it returned
  pipe,         \* the triggerProxyGeneration task: its position and its locals
  jobs,         \* the FFmpeg job instances on the platform, by name
  now,          \* Date.now(), counted in poll intervals
  trace,        \* what has happened to the pipeline's calls so far
  calls,        \* the updateAsset calls that run step by step, per caller
  instances,    \* the MinIO and Valkey instances createInstance has made, in order
  ensure,       \* the ensureMinioInstance / ensureValkeyInstance calls, per caller
  listed,       \* the listAssets / searchAssets call that returned last, with its result
  wait,         \* a waitForFfmpegJob call made on its own: its position and its locals
  clients,      \* the maps redisClients and s3Clients, and the clients constructed so far
  run,          \* an updateAsset / deleteAsset call whose store commands run one by one
  tasks         \* triggerProxyGeneration tasks that run at the same time, per caller

vars ==
  <<redis, uuid, last, pipe, jobs, now, trace, calls, instances, ensure, listed, wait,
    clients, run, tasks>>

\* the client caches, the call that runs command by command, the concurrent tasks
otherVars == <<clients, run, tasks>>

\* the state of the provisioning calls
ensureVars == <<instances, ensure>>

\* what the metadata calls leave alone
taskVars == <<pipe, jobs, now, trace, calls, ensureVars, listed, wait, otherVars>>

\* null, as returned by parseAsset / parseCollection for a key that does not exist
Null == [null |-> TRUE]

\* --------------------------------------------------------------- strings

UpperToLower ==
  ("A" :> "a") @@ ("B" :> "b") @@ ("C" :> "c") @@ ("D" :> "d") @@ ("E" :> "e") @@
  ("F" :> "f") @@ ("G" :> "g") @@ ("H" :> "h") @@ ("I" :> "i") @@ ("J" :> "j") @@
  ("K" :> "k") @@ ("L" :> "l") @@ ("M" :> "m") @@ ("N" :> "n") @@ ("O" :> "o") @@
  ("P" :> "p") @@ ("Q" :> "q") @@ ("R" :> "r") @@ ("S" :> "s") @@ ("T" :> "t") @@
  ("U" :> "u") @@ ("V" :> "v") @@ ("W" :> "w") @@ ("X" :> "x") @@ ("Y" :> "y") @@
  ("Z" :> "z") @@ ("U+00C9" :> "U+00E9")

LowerLetters ==
  {"a", "b", "c", "d", "e", "f", "g", "h", "i", "j", "k", "l", "m", "n", "o",
   "p", "q", "r", "s", "t", "u", "v", "w", "x", "y", "z"}

Digits == {"0", "1", "2", "3", "4", "5", "6", "7", "8", "9"}

\* the code points of À-ɏ that the model's strings use
ExtendedLatin == {"U+00C9", "U+00E9"}

\* String.prototype.toLowerCase, one character
LowerChar(c) == IF c \in DOMAIN UpperToLower THEN UpperToLower[c] ELSE c

\* String.prototype.toLowerCase
toLowerCase(s) == [i \in 1..Len(s) |-> LowerChar(s[i])]

\* the character class [a-z0-9À-ɏ]
WordChars == LowerLetters \cup Digits \cup ExtendedLatin
IsWordChar(c) == c \in WordChars

\* Array.prototype.join
RECURSIVE join(_, _)
join(parts, sep) ==
  IF parts = <<>> THEN <<>>
  ELSE IF Len(parts) = 1 THEN parts[1]
  ELSE parts[1] \o sep \o join(Tail(parts), sep)

\* the scan of text.match(/[a-z0-9À-ɏ]+/g) from position i: cur is the run being
\* read, acc the runs that have ended
RECURSIVE matchFrom(_, _, _, _)
matchFrom(text, i, cur, acc) ==
  LET ended == IF cur = <<>> THEN acc ELSE acc \cup {cur}
  IN IF i > Len(text) THEN ended
     ELSE IF IsWordChar(text[i]) THEN matchFrom(text, i + 1, Append(cur, text[i]), acc)
     ELSE matchFrom(text, i + 1, <<>>, ended)

\* text.match(/[a-z0-9À-ɏ]+/g): the maximal runs of word characters
matchWords(text) == matchFrom(text, 1, <<>>, {})

\* extractWords: the de-duplicated words of length >= 2 of title, description, tags
extractWords(asset) ==
  LET text == toLowerCase(join(<<asset.title, asset.description>> \o asset.tags, <<" ">>))
  IN { w \in matchWords(text) : Len(w) >= 2 }

\* Array.prototype.includes
includes(list, x) == \E i \in 1..Len(list) : list[i] = x

\* Array.prototype.filter with the predicate "is (not) in other"
RECURSIVE filterNotIn(_, _)
filterNotIn(list, other) ==
  IF list = <<>> THEN <<>>
  ELSE (IF includes(other, Head(list)) THEN <<>> ELSE <<Head(list)>>)
         \o filterNotIn(Tail(list), other)

\* tags.map((t) => t.toLowerCase())
mapLower(tags) == [i \in 1..Len(tags) |-> toLowerCase(tags[i])]

\* ------------------------------------------------------- Valkey commands

\* SMEMBERS key (a key that does not exist is the empty set)
smembers(sets, key) == IF key \in DOMAIN sets THEN sets[key] ELSE {}

\* SADD key member
sadd(sets, key, member) ==
  [k \in DOMAIN sets \cup {key} |->
     IF k = key THEN smembers(sets, key) \cup {member} ELSE sets[k]]

\* SREM key member (Valkey deletes a set that becomes empty)
srem(sets, key, member) ==
  LET rest == smembers(sets, key) \ {member}
  IN [k \in (IF rest = {} THEN DOMAIN sets \ {key} ELSE DOMAIN sets) |->
        IF k = key THEN rest ELSE sets[k]]

\* DEL key
del(sets, key) == [k \in DOMAIN sets \ {key} |-> sets[k]]

\* ZSCORE key member, a missing member counting as 0
zscore(zset, member) == IF member \in DOMAIN zset THEN zset[member] ELSE 0

\* ZINCRBY key increment member (a missing member starts at 0)
zincrby(zset, n, member) ==
  [m \in DOMAIN zset \cup {member} |->
     IF m = member THEN zscore(zset, member) + n ELSE zset[m]]

\* ZREMRANGEBYSCORE key -inf 0
zremrangebyscoreUpTo0(zset) == [m \in {k \in DOMAIN zset : zset[k] > 0} |-> zset[m]]

\* one ZINCRBY per element of a list, in order
RECURSIVE zincrbyEach(_, _, _)
zincrbyEach(zset, n, members) ==
  IF members = <<>> THEN zset
  ELSE zincrbyEach(zincrby(zset, n, Head(members)), n, Tail(members))

\* one SADD of the same member per key of a list
RECURSIVE saddEach(_, _, _)
saddEach(sets, keys, member) ==
  IF keys = <<>> THEN sets
  ELSE saddEach(sadd(sets, Head(keys), member), Tail(keys), member)

\* sremEach with the SREM loop left out
sremEachSkipped(sets, keys, member) == sets

\* one SREM of the same member per key of a list
RECURSIVE sremEach(_, _, _)
sremEach(sets, keys, member) ==
  IF keys = <<>> THEN sets
  ELSE sremEach(srem(sets, Head(keys), member), Tail(keys), member)

\* a list of the elements of a finite set (the order SMEMBERS happens to return)
RECURSIVE setToSeq(_)
setToSeq(S) ==
  IF S = {} THEN <<>>
  ELSE LET x == CHOOSE y \in S : TRUE IN <<x>> \o setToSeq(S \ {x})

\* ZADD key score member with a score that is the current clock: appended last
zaddNow(index, member) ==
  IF includes(index, member) THEN index ELSE Append(index, member)

\* zrem that removes nothing
zremSkipped(index, member) == index

\* ZREM key member
zrem(index, member) == filterNotIn(index, <<member>>)

\* the members of a sorted set held as the list of its members in score order
zmembers(index) == { index[i] : i \in 1..Len(index) }

\* ------------------------------------------------------------ key helpers

\* a JavaScript number: a finite one carries its value, NaN and the infinities none
finite(n) == [finite |-> n]
Infinity == [infinite |-> TRUE]
isFinite(x) == "finite" \in DOMAIN x

\* the properties of an Asset that hold a number
NumberFields == {"fileSize", "duration"}

\* JSON.stringify that writes null for every number
stringifyNumbersNull(asset) ==
  [f \in DOMAIN asset |-> IF f \in NumberFields THEN Null ELSE asset[f]]

\* JSON.stringify(asset): strings, arrays and plain objects are written as they are,
\* a finite number as its digits, a number that is not finite as null
stringify(asset) ==
  [f \in DOMAIN asset |->
     IF f \in NumberFields /\ ~isFinite(asset[f]) THEN Null ELSE asset[f]]

\* parseAsset: JSON.parse of the text stringify wrote, null for no text
parseAsset(raw) == raw

\* GET asset:<id> followed by parseAsset: the stored record, or null
getAsset(r, id) == IF id \in DOMAIN r.asset THEN parseAsset(r.asset[id]) ELSE Null

\* GET collection:<id> followed by parseCollection
getCollection(r, id) == IF id \in DOMAIN r.collection THEN r.collection[id] ELSE Null

\* SET key value on a family of string keys
set(strings, key, value) == [k \in DOMAIN strings \cup {key} |-> IF k = key THEN value ELSE strings[k]]

\* rec.field = undefined followed by JSON.stringify, which drops the property
setUndefined(rec, field) == [f \in DOMAIN rec \ {field} |-> rec[f]]

\* one SADD of member per word
RECURSIVE saddWords(_, _, _)
saddWords(sets, words, member) ==
  IF words = {} THEN sets
  ELSE LET w == CHOOSE x \in words : TRUE
       IN saddWords(sadd(sets, w, member), words \ {w}, member)

\* one SREM of member per word
RECURSIVE sremWords(_, _, _)
sremWords(sets, words, member) ==
  IF words = {} THEN sets
  ELSE LET w == CHOOSE x \in words : TRUE
       IN sremWords(srem(sets, w, member), words \ {w}, member)

\* indexAssetForSearch that adds nothing
indexAssetForSearchSkipped(r, asset) == r

\* indexAssetForSearch: SADD search:word:<w> id for every extracted word
indexAssetForSearch(r, asset) ==
  [r EXCEPT !.searchWord = saddWords(@, extractWords(asset), asset.id)]

\* removeAssetFromSearchIndex that leaves the old entries in place
removeAssetFromSearchIndexSkipped(r, asset) == r

\* removeAssetFromSearchIndex: SREM search:word:<w> id for every extracted word
removeAssetFromSearchIndex(r, asset) ==
  [r EXCEPT !.searchWord = sremWords(@, extractWords(asset), asset.id)]

\* ------------------------------------------------------------- asset CRUD

\* new Date().toISOString(): the clock, as the timestamp string that spells it
toISOString(ms) == [iso |-> ms]

\* createAsset, the batch of lines 137-155
createAssetPipeline(r, asset) ==
  [r EXCEPT !.asset = set(@, asset.id, stringify(asset)),
            !.assetsIndex = zaddNow(@, asset.id),
            !.tagsAll = zincrbyEach(@, 1, mapLower(asset.tags)),
            !.assetsByCollection = saddEach(@, asset.collections, asset.id)]

\* createAsset: the keyspace after the call; the call returns the record
createAsset(r, id, input) ==
  LET asset == [id |-> id, createdAt |-> toISOString(now), updatedAt |-> toISOString(now)]
                 @@ input
  IN [redis |-> indexAssetForSearch(createAssetPipeline(r, asset), asset),
      ret |-> asset]

\* mergeAsset that lets the updates overwrite every field
mergeAssetUnprotected(existing, updates) ==
  [updatedAt |-> toISOString(now)] @@ updates @@ existing

\* updateAsset, lines 187-194: the spread of updates over existing, id and createdAt
\* protected, updatedAt refreshed
mergeAsset(existing, updates) ==
  [id |-> existing.id, createdAt |-> existing.createdAt, updatedAt |-> toISOString(now)]
    @@ updates @@ existing

\* updateAsset, the batch of lines 196-228
updateAssetPipeline(r, id, existing, updates) ==
  LET oldTags == mapLower(existing.tags)
      newTags == mapLower(IF "tags" \in DOMAIN updates THEN updates.tags ELSE existing.tags)
      merged == mergeAsset(existing, updates)
      addedTags == filterNotIn(newTags, oldTags)
      removedTags == filterNotIn(oldTags, newTags)
      oldCollections == existing.collections
      newCollections == IF "collections" \in DOMAIN updates
                          THEN updates.collections ELSE existing.collections
      addedCollections == filterNotIn(newCollections, oldCollections)
      removedCollections == filterNotIn(oldCollections, newCollections)
  IN [r EXCEPT !.asset = set(@, id, stringify(merged)),
               !.tagsAll = zincrbyEach(zincrbyEach(@, 1, addedTags), -1, removedTags),
               !.assetsByCollection =
                  sremEach(saddEach(@, addedCollections, id), removedCollections, id)]

\* updateAsset: the keyspace after the call and what the call returns
updateAsset(r, id, updates) ==
  LET existing == getAsset(r, id)
      merged == mergeAsset(existing, updates)
  IN IF existing = Null THEN [redis |-> r, ret |-> Null]
     ELSE [redis |-> indexAssetForSearch(
                       updateAssetPipeline(removeAssetFromSearchIndex(r, existing),
                                           id, existing, updates),
                       merged),
           ret |-> merged]

\* deleteAsset, the batch of lines 247-265
deleteAssetPipeline(r, id, asset) ==
  [r EXCEPT !.asset = del(@, id),
            !.assetsIndex = zrem(@, id),
            !.tagsAll = zincrbyEach(@, -1, mapLower(asset.tags)),
            !.assetsByCollection = sremEach(@, asset.collections, id)]

\* deleteAsset, line 268: prune the tags whose score is zero or negative
deleteAssetPrune(r) == [r EXCEPT !.tagsAll = zremrangebyscoreUpTo0(@)]

\* deleteAsset: the keyspace after the call and what the call returns
deleteAsset(r, id) ==
  LET asset == getAsset(r, id)
  IN IF asset = Null THEN [redis |-> r, ret |-> FALSE]
     ELSE [redis |-> deleteAssetPrune(
                       deleteAssetPipeline(removeAssetFromSearchIndex(r, asset), id, asset)),
           ret |-> TRUE]

\* -------------------------------------------------------- collection CRUD

\* createCollection: assetCount 0, no coverAssetId
createCollection(r, id, name, description) ==
  LET collection == [id |-> id, name |-> name, description |-> description, assetCount |-> 0,
                     createdAt |-> toISOString(now), updatedAt |-> toISOString(now)]
  IN [redis |-> [r EXCEPT !.collection = set(@, id, collection),
                          !.collectionsIndex = zaddNow(@, id)],
      ret |-> collection]

\* updateCollection that writes the updates under the id when there is no record
updateCollectionUpsert(r, id, updates) ==
  LET existing == getCollection(r, id)
      merged == IF existing = Null THEN [id |-> id] @@ updates
                ELSE [id |-> existing.id, createdAt |-> existing.createdAt,
                      updatedAt |-> toISOString(now)] @@ updates @@ existing
  IN [redis |-> [r EXCEPT !.collection = set(@, id, merged)], ret |-> merged]

\* updateCollection: the keyspace after the call and what the call returns
updateCollection(r, id, updates) ==
  LET existing == getCollection(r, id)
      merged == [id |-> existing.id, createdAt |-> existing.createdAt,
                 updatedAt |-> toISOString(now)] @@ updates @@ existing
  IN IF existing = Null THEN [redis |-> r, ret |-> Null]
     ELSE [redis |-> [r EXCEPT !.collection = set(@, id, merged)], ret |-> merged]

\* rewriteMembers that rewrites no asset
rewriteMembersSkipped(assets, read, assetIds, id) == assets

\* deleteCollection, lines 536-546: rewrite every member asset that was read
RECURSIVE rewriteMembers(_, _, _, _)
rewriteMembers(assets, read, assetIds, id) ==
  IF assetIds = <<>> THEN assets
  ELSE LET raw == getAsset(read, Head(assetIds))
           rest == rewriteMembers(assets, read, Tail(assetIds), id)
       IN IF raw = Null THEN rest
          ELSE set(rest, raw.id, [raw EXCEPT !.collections = filterNotIn(@, <<id>>),
                                             !.updatedAt = toISOString(now)])

\* deleteCollection that deletes the membership set before it looks at the record
deleteCollectionEager(r, id) ==
  LET collection == getCollection(r, id)
      assetIds == setToSeq(smembers(r.assetsByCollection, id))
      afterDel == [r EXCEPT !.collection = del(@, id),
                            !.collectionsIndex = zrem(@, id),
                            !.assetsByCollection = del(@, id)]
  IN IF collection = Null
       THEN [redis |-> [r EXCEPT !.assetsByCollection = del(@, id)], ret |-> FALSE]
     ELSE [redis |-> [afterDel EXCEPT !.asset = rewriteMembers(@, r, assetIds, id)],
           ret |-> TRUE]

\* deleteCollection: the keyspace after the call and what the call returns
deleteCollection(r, id) ==
  LET collection == getCollection(r, id)
      assetIds == setToSeq(smembers(r.assetsByCollection, id))
      afterDel == [r EXCEPT !.collection = del(@, id),
                            !.collectionsIndex = zrem(@, id),
                            !.assetsByCollection = del(@, id)]
  IN IF collection = Null THEN [redis |-> r, ret |-> FALSE]
     ELSE [redis |-> [afterDel EXCEPT !.asset = rewriteMembers(@, r, assetIds, id)],
           ret |-> TRUE]

\* addAssetToCollection without the membership test of lines 602-607
addAssetToCollectionUnchecked(r, collectionId, assetId) ==
  LET collection == getCollection(r, collectionId)
      asset == getAsset(r, assetId)
  IN IF collection = Null THEN [redis |-> r, ret |-> "Collection not found"]
     ELSE IF asset = Null THEN [redis |-> r, ret |-> "Asset not found"]
     ELSE [redis |->
             [r EXCEPT !.assetsByCollection = sadd(@, collectionId, assetId),
                       !.asset = set(@, assetId,
                                     [asset EXCEPT !.collections = Append(@, collectionId)]),
                       !.collection = set(@, collectionId,
                                          [collection EXCEPT !.assetCount = @ + 1])],
           ret |-> "void"]

\* addAssetToCollection: the keyspace after the call; ret is "void" or the error thrown
addAssetToCollection(r, collectionId, assetId) ==
  LET collection == getCollection(r, collectionId)
      asset == getAsset(r, assetId)
  IN IF collection = Null THEN [redis |-> r, ret |-> "Collection not found"]
     ELSE IF asset = Null THEN [redis |-> r, ret |-> "Asset not found"]
     ELSE IF assetId \in smembers(r.assetsByCollection, collectionId)
       THEN [redis |-> r, ret |-> "void"]
     ELSE [redis |->
             [r EXCEPT !.assetsByCollection = sadd(@, collectionId, assetId),
                       !.asset = set(@, assetId,
                                     [asset EXCEPT !.collections = Append(@, collectionId),
                                                   !.updatedAt = toISOString(now)]),
                       !.collection = set(@, collectionId,
                                          [collection EXCEPT !.assetCount = @ + 1,
                                                             !.updatedAt = toISOString(now)])],
           ret |-> "void"]

\* Math.max(0, n)
max0(n) == IF n > 0 THEN n ELSE 0

\* removedFromCollection that clears the cover asset whatever it is
removedFromCollectionNoCover(collection, assetId) ==
  setUndefined([collection EXCEPT !.assetCount = IF @ > 0 THEN @ - 1 ELSE 0], "coverAssetId")

\* removeAssetFromCollection, lines 663-670: the collection record that is written
removedFromCollection(collection, assetId) ==
  LET counted == [collection EXCEPT !.assetCount = max0(@ - 1),
                                    !.updatedAt = toISOString(now)]
  IN IF "coverAssetId" \in DOMAIN counted /\ counted.coverAssetId = assetId
       THEN setUndefined(counted, "coverAssetId")
       ELSE counted

\* removeAssetFromCollection that removes the id from the membership set before it
\* looks for the two records
removeAssetFromCollectionEager(r, collectionId, assetId) ==
  LET collection == getCollection(r, collectionId)
      asset == getAsset(r, assetId)
      removed == [r EXCEPT !.assetsByCollection = srem(@, collectionId, assetId)]
  IN IF collection = Null THEN [redis |-> removed, ret |-> "Collection not found"]
     ELSE IF asset = Null THEN [redis |-> removed, ret |-> "Asset not found"]
     ELSE IF assetId \notin smembers(r.assetsByCollection, collectionId)
       THEN [redis |-> r, ret |-> "void"]
     ELSE [redis |->
             [removed EXCEPT
                !.asset = set(@, assetId,
                              [asset EXCEPT !.collections = filterNotIn(@, <<collectionId>>)]),
                !.collection = set(@, collectionId,
                                   [collection EXCEPT !.assetCount = IF @ > 0 THEN @ - 1 ELSE 0])],
           ret |-> "void"]

\* removeAssetFromCollection: the keyspace after the call; ret as for addAssetToCollection
removeAssetFromCollection(r, collectionId, assetId) ==
  LET collection == getCollection(r, collectionId)
      asset == getAsset(r, assetId)
  IN IF collection = Null THEN [redis |-> r, ret |-> "Collection not found"]
     ELSE IF asset = Null THEN [redis |-> r, ret |-> "Asset not found"]
     ELSE IF assetId \notin smembers(r.assetsByCollection, collectionId)
       THEN [redis |-> r, ret |-> "void"]
     ELSE [redis |->
             [r EXCEPT !.assetsByCollection = srem(@, collectionId, assetId),
                       !.asset = set(@, assetId,
                                     [asset EXCEPT !.collections = filterNotIn(@, <<collectionId>>),
                                                   !.updatedAt = toISOString(now)]),
                       !.collection = set(@, collectionId, removedFromCollection(collection, assetId))],
           ret |-> "void"]

\* ------------------------------------------------- listing and search

MathMax(a, b) == IF a >= b THEN a ELSE b
MathMin(a, b) == IF a <= b THEN a ELSE b

\* opts?.field ?? d
orDefault(opts, field, d) == IF field \in DOMAIN opts THEN opts[field] ELSE d

\* Math.max(1, opts?.page ?? 1)
pageOf(opts) == MathMax(1, orDefault(opts, "page", 1))

\* the limit taken as it is passed
limitOfUnclamped(opts) == orDefault(opts, "limit", 20)

\* Math.min(100, Math.max(1, opts?.limit ?? 20))
limitOf(opts) == MathMin(100, MathMax(1, orDefault(opts, "limit", 20)))

\* Array.prototype.slice(start, end) for 0 <= start <= end
slice(list, start, end) == SubSeq(list, start + 1, MathMin(end, Len(list)))

\* the page: assets.slice(start, start + limit) with start = (page - 1) * limit
paginate(assets, opts) ==
  LET start == (pageOf(opts) - 1) * limitOf(opts)
  IN slice(assets, start, start + limitOf(opts))

\* the reply to SMEMBERS / SINTER as a list: the ids in ascending order
membersList(S) ==
  [i \in 1..Cardinality(S) |-> CHOOSE x \in S : Cardinality({ y \in S : y < x }) = i - 1]

\* the bulk GET of the ids: the records that exist and parse, in the order asked
fetchAssets(r, ids) ==
  LET found == SelectSeq(ids, LAMBDA id : getAsset(r, id) # Null)
  IN [i \in 1..Len(found) |-> getAsset(r, found[i])]

\* String.prototype.toLowerCase on a type filter
lowerType(type) == IF type = "VIDEO" THEN "video" ELSE type

\* mimeType.toLowerCase().startsWith(typeFilter), on the MIME types in use
startsWith(mimeType, typeFilter) ==
  <<mimeType, typeFilter>> \in {<<"video/mp4", "video">>, <<"image/png", "image">>}

\* the MIME type filter, applied when opts.type is a non-empty string
filterType(assets, opts) ==
  IF "type" \in DOMAIN opts
    THEN SelectSeq(assets, LAMBDA a : startsWith(a.mimeType, lowerType(opts.type)))
    ELSE assets

\* a.createdAt.localeCompare(b.createdAt): ISO-8601 stamps order as their instants
compareCreatedAt(a, b) == a.createdAt.iso - b.createdAt.iso

\* Array.prototype.sort with the comparator sign * compareCreatedAt. The sort is
\* stable: the records come out group by group in the order of their stamps, and
\* within a group (records that compare equal) in the order they were fetched in
RECURSIVE groupsInOrder(_, _, _)
groupsInOrder(list, sign, stamps) ==
  IF stamps = {} THEN <<>>
  ELSE LET first == CHOOSE s \in stamps : \A t \in stamps : sign * (s - t) <= 0
       IN SelectSeq(list, LAMBDA a : compareCreatedAt(a, [createdAt |-> toISOString(first)]) = 0)
            \o groupsInOrder(list, sign, stamps \ {first})

sortByCreatedAt(list, sign) ==
  groupsInOrder(list, sign, { list[i].createdAt.iso : i \in 1..Len(list) })

\* listAssets sorted by createdAt: the page and the filtered total
listAssets(r, opts) ==
  LET assetIds == IF "collectionId" \in DOMAIN opts
                    THEN membersList(smembers(r.assetsByCollection, opts.collectionId))
                    ELSE r.assetsIndex
      assets == filterType(fetchAssets(r, assetIds), opts)
      sign == IF orDefault(opts, "order", "desc") = "asc" THEN 1 ELSE -1
  IN [assets |-> paginate(sortByCreatedAt(assets, sign), opts), total |-> Len(assets)]

\* the words of the query as it was typed, without toLowerCase
usableWordsAsTyped(query) == { w \in matchWords(query) : Len(w) >= 2 }

\* SINTER that answers with the union of the sets
sinterUnion(sets, words) == UNION { smembers(sets, w) : w \in words }

\* query.toLowerCase().match(...) filtered to the words of length >= 2
usableWords(query) == { w \in matchWords(toLowerCase(query)) : Len(w) >= 2 }

\* SINTER over the word sets (SMEMBERS when there is one word)
sinter(sets, words) == { id \in UNION { smembers(sets, w) : w \in words } :
                          \A w \in words : id \in smembers(sets, w) }

\* searchAssets: the page and the filtered total
searchAssets(r, query, opts) ==
  LET matchingIds == membersList(sinter(r.searchWord, usableWords(query)))
      assets == filterType(fetchAssets(r, matchingIds), opts)
  IN [assets |-> paginate(sortByCreatedAt(assets, -1), opts), total |-> Len(assets)]

\* ------------------------------------------------- the callers' inputs

\* "Big": one word
TitleBig == <<"B", "i", "g">>
\* "big-a b2": the words big and b2; "a" is too short to be indexed
TitleBigB2 == <<"b", "i", "g", "-", "a", " ", "b", "2">>
Titles == {TitleBig, TitleBigB2}

\* "Ét": one word, lower-cased to "ét"
Descriptions == {<<"U+00C9", "t">>}

TagAb == <<"A", "b">>
Tagab == <<"a", "b">>
\* no tag, one tag, the same tag twice up to case
TagLists == {<<>>, <<Tagab>>, <<TagAb, Tagab>>}

AssetIds == 1..MaxAssets
CollectionIds == 1..MaxColls

\* the lists of ids of collections created so far, n being how many were created
CollectionLists(n) == { setToSeq(S) : S \in SUBSET (1..n) }

\* createAsset inputs (Omit<Asset, "id" | "createdAt" | "updatedAt">) that vary the text
TextInputs ==
  [title : Titles, description : Descriptions, tags : TagLists,
   collections : {<<>>}, mimeType : {"video/mp4"}, proxyStatus : {"pending"}]

\* updateAsset updates (Partial<Asset>) that vary the text
TextUpdates == [title : Titles] \cup [tags : TagLists] \cup [title : Titles, tags : TagLists]

\* createAsset inputs that vary the collections
MemberInputs(n) ==
  [title : {TitleBigB2}, description : Descriptions, tags : {<<TagAb>>},
   collections : CollectionLists(n), mimeType : {"video/mp4"}, proxyStatus : {"pending"}]

\* updateAsset updates that vary the collections
MemberUpdates(n) == [collections : CollectionLists(n)]

EmptyRedis ==
  [asset |-> <<>>, assetsIndex |-> <<>>, tagsAll |-> <<>>, assetsByCollection |-> <<>>,
   collection |-> <<>>, collectionsIndex |-> <<>>, searchWord |-> <<>>]

\* the keyspaces the model explores: the counters that can drift stay in their caps
Explored(r) ==
  /\ \A m \in DOMAIN r.tagsAll : r.tagsAll[m] \in -MaxScore..MaxScore
  /\ \A c \in DOMAIN r.collection : r.collection[c].assetCount <= MaxCount

\* ----------------------------------------- calls that run one at a time

\* no waitForFfmpegJob call has been made on its own yet
NoWait ==
  [pc |-> "idle", name |-> <<>>, maxWaitMs |-> 0, startTime |-> 0, queries |-> 0,
   reported |-> "", latest |-> "", result |-> ""]

\* no listAssets / searchAssets call has returned yet
NoListing == [op |-> "none", query |-> <<>>, opts |-> <<>>, assets |-> <<>>, total |-> 0]

NoCall == [op |-> "none", asset |-> 0, collection |-> 0, ret |-> "none"]

\* the two Maps are empty, no client has been constructed, no call has been made
NoClients ==
  [redisClients |-> <<>>, s3Clients |-> <<>>, made |-> <<>>,
   returned |-> [kind |-> "", key |-> "", client |-> 0]]

\* no call is running command by command
NoRun == [op |-> "none", pc |-> "idle", id |-> 0, queue |-> <<>>, done |-> <<>>]

\* a caller for whom no pipeline has been launched
NoTask ==
  [pc |-> "idle", asset |-> 0, stage |-> "", name |-> <<>>, startTime |-> 0,
   status |-> "", submitted |-> {}, polled |-> {}, removed |-> {}]

\* the callers whose updateAsset calls run step by step
Callers == {"A", "B"}

\* a caller that has not called updateAsset yet; snapshot is the keyspace the
\* caller read from, rank the position of its record write among the writes
NoUpdate ==
  [pc |-> "idle", id |-> 0, updates |-> <<>>, existing |-> Null, snapshot |-> EmptyRedis,
   rank |-> 0, overlapped |-> FALSE]

\* a caller that has not called ensureMinioInstance / ensureValkeyInstance yet
NoEnsure ==
  [pc |-> "idle", service |-> "", name |-> "", attempt |-> 0, failures |-> {},
   existing |-> FALSE, invocations |-> 0, errors |-> <<>>, delays |-> <<>>,
   created |-> FALSE, ready |-> FALSE, thrown |-> ""]

\* the task before confirm-upload has started it
NoJobName == <<>>

\* no response has been sent
NoResponse == [status |-> 0, body |-> Null]

NoPipeline ==
  [pc |-> "idle", asset |-> Null, proxyJobName |-> NoJobName, thumbJobName |-> NoJobName,
   startTime |-> 0, proxyStatus |-> "", thumbStatus |-> "", response |-> NoResponse]

Init ==
  /\ redis = EmptyRedis
  /\ uuid = [asset |-> 0, collection |-> 0]
  /\ last = NoCall
  /\ pipe = NoPipeline
  /\ jobs = <<>>
  /\ now = 0
  /\ trace = {}
  /\ calls = [c \in Callers |-> NoUpdate]
  /\ instances = <<>>
  /\ ensure = [c \in Callers |-> NoEnsure]
  /\ listed = NoListing
  /\ wait = NoWait
  /\ clients = NoClients
  /\ run = NoRun
  /\ tasks = [c \in Callers |-> NoTask]

CreateAsset(inputs) ==
  /\ uuid.asset < MaxAssets
  /\ \E input \in inputs :
       \E res \in {createAsset(redis, uuid.asset + 1, input)} :
          /\ Explored(res.redis)
          /\ redis' = res.redis
          /\ uuid' = [uuid EXCEPT !.asset = @ + 1]
          /\ last' = [op |-> "createAsset", asset |-> res.ret.id, collection |-> 0,
                      ret |-> "asset"]
          /\ UNCHANGED taskVars

UpdateAsset(inputs) ==
  \E id \in AssetIds, updates \in inputs :
    \E res \in {updateAsset(redis, id, updates)} :
       /\ Explored(res.redis)
       /\ redis' = res.redis
       /\ last' = [op |-> "updateAsset", asset |-> id, collection |-> 0,
                   ret |-> IF res.ret = Null THEN "null" ELSE "asset"]
       /\ UNCHANGED <<uuid, taskVars>>

DeleteAsset ==
  \E id \in AssetIds :
    \E res \in {deleteAsset(redis, id)} :
       /\ Explored(res.redis)
       /\ redis' = res.redis
       /\ last' = [op |-> "deleteAsset", asset |-> id, collection |-> 0,
                   ret |-> IF res.ret THEN "true" ELSE "false"]
       /\ UNCHANGED <<uuid, taskVars>>

CreateCollection ==
  /\ uuid.collection < MaxColls
  /\ \E res \in {createCollection(redis, uuid.collection + 1, "name", "")} :
        /\ redis' = res.redis
        /\ uuid' = [uuid EXCEPT !.collection = @ + 1]
        /\ last' = [op |-> "createCollection", asset |-> 0, collection |-> res.ret.id,
                    ret |-> "collection"]
        /\ UNCHANGED taskVars

DeleteCollection ==
  \E id \in CollectionIds :
    \E res \in {deleteCollection(redis, id)} :
       /\ redis' = res.redis
       /\ last' = [op |-> "deleteCollection", asset |-> 0, collection |-> id,
                   ret |-> IF res.ret THEN "true" ELSE "false"]
       /\ UNCHANGED <<uuid, taskVars>>

AddAssetToCollection ==
  \E collectionId \in CollectionIds, assetId \in AssetIds :
    \E res \in {addAssetToCollection(redis, collectionId, assetId)} :
       /\ Explored(res.redis)
       /\ redis' = res.redis
       /\ last' = [op |-> "addAssetToCollection", asset |-> assetId,
                   collection |-> collectionId, ret |-> res.ret]
       /\ UNCHANGED <<uuid, taskVars>>

RemoveAssetFromCollection ==
  \E collectionId \in CollectionIds, assetId \in AssetIds :
    \E res \in {removeAssetFromCollection(redis, collectionId, assetId)} :
       /\ redis' = res.redis
       /\ last' = [op |-> "removeAssetFromCollection", asset |-> assetId,
                   collection |-> collectionId, ret |-> res.ret]
       /\ UNCHANGED <<uuid, taskVars>>

UpdateCollection(inputs) ==
  \E id \in CollectionIds, updates \in inputs :
    \E res \in {updateCollection(redis, id, updates)} :
       /\ redis' = res.redis
       /\ last' = [op |-> "updateCollection", asset |-> 0, collection |-> id,
                   ret |-> IF res.ret = Null THEN "null" ELSE "collection"]
       /\ UNCHANGED <<uuid, taskVars>>

\* the asset calls, on assets whose text varies and that are in no collection
Next ==
  \/ CreateAsset(TextInputs)
  \/ UpdateAsset(TextUpdates)
  \/ DeleteAsset

Spec == Init /\ [][Next]_vars

\* the asset and collection calls, on assets whose collections vary
NextColl ==
  \/ CreateAsset(MemberInputs(uuid.collection))
  \/ UpdateAsset(MemberUpdates(uuid.collection))
  \/ DeleteAsset
  \/ CreateCollection
  \/ DeleteCollection
  \/ AddAssetToCollection
  \/ RemoveAssetFromCollection

SpecColl == Init /\ [][NextColl]_vars

\* createAsset inputs of the assets that collections get and lose
PlainInputs(n) ==
  [title : {TitleBig}, description : {<<>>}, tags : {<<>>}, collections : CollectionLists(n),
   mimeType : {"video/mp4"}, proxyStatus : {"pending"}]

\* PUT /api/collections/:id with a cover asset
CoverUpdates == [coverAssetId : AssetIds]

\* the calls that give collections their members and their cover assets
NextCover ==
  \/ CreateAsset(PlainInputs(uuid.collection))
  \/ CreateCollection
  \/ UpdateCollection(CoverUpdates)
  \/ AddAssetToCollection
  \/ RemoveAssetFromCollection

SpecCover == Init /\ [][NextCover]_vars

\* createAsset inputs of the assets whose timestamps are watched
StampInputs ==
  [title : {TitleBig}, description : {<<>>}, tags : {<<Tagab>>}, collections : {<<>>},
   mimeType : {"video/mp4"}, proxyStatus : {"pending"}]

\* updateAsset updates that leave fields out, and updates that supply the protected
\* fields with values of their own
StampUpdates ==
  {[title |-> TitleBigB2],
   [tags |-> <<>>],
   [proxyStatus |-> "ready", updatedAt |-> toISOString(MaxClock + 1)],
   [id |-> MaxAssets + 1, createdAt |-> toISOString(MaxClock + 1)]}

\* time passes
Tick ==
  /\ now < MaxClock
  /\ now' = now + 1
  /\ UNCHANGED <<redis, uuid, last, pipe, jobs, trace, calls, ensureVars, listed, wait, otherVars>>

\* createAsset, once, and updateAsset as the clock runs
NextStamp ==
  \/ uuid.asset = 0 /\ CreateAsset(StampInputs)
  \/ UpdateAsset(StampUpdates)
  \/ Tick

SpecStamp == Init /\ [][NextStamp]_vars

\* ------------------------------------------- createAsset read back by getAsset

\* createAsset inputs with every property of the input type: file sizes that are
\* finite and one that is not (express.json reads 1e999 as Infinity)
RoundInputs ==
  [filename : {"a.mp4"}, mimeType : {"video/mp4"},
   fileSize : {finite(0), finite(5), Infinity},
   title : {TitleBig, <<>>}, description : {<<>>}, tags : {<<>>, <<Tagab>>},
   customMeta : {[genre |-> "news"]}, minioKey : {"originals/1/a.mp4"},
   proxyStatus : {"pending"}, collections : {<<>>}]

\* createAsset and deleteAsset as the clock runs
NextRound ==
  \/ CreateAsset(RoundInputs)
  \/ DeleteAsset
  \/ Tick

SpecRound == Init /\ [][NextRound]_vars

\* ------------------------------------------------- listing and search calls

ListAssets(optsSet) ==
  \E opts \in optsSet :
    \E res \in {listAssets(redis, opts)} :
       /\ listed' = [op |-> "listAssets", query |-> <<>>, opts |-> opts,
                     assets |-> res.assets, total |-> res.total]
       /\ UNCHANGED <<redis, uuid, last, pipe, jobs, now, trace, calls, ensureVars, wait, otherVars>>

SearchAssets(queries, optsSet) ==
  \E query \in queries, opts \in optsSet :
    \E res \in {searchAssets(redis, query, opts)} :
       /\ listed' = [op |-> "searchAssets", query |-> query, opts |-> opts,
                     assets |-> res.assets, total |-> res.total]
       /\ UNCHANGED <<redis, uuid, last, pipe, jobs, now, trace, calls, ensureVars, wait, otherVars>>

\* createAsset inputs whose text yields the words big, b2, U+00E9 t and ab
SearchInputs ==
  {[title |-> TitleBig, description |-> <<"U+00C9", "t">>, tags |-> <<>>,
    collections |-> <<>>, mimeType |-> "video/mp4", proxyStatus |-> "pending"],
   [title |-> TitleBigB2, description |-> <<>>, tags |-> <<TagAb>>,
    collections |-> <<>>, mimeType |-> "video/mp4", proxyStatus |-> "pending"]}

SearchUpdates == [title : Titles]

QueryBIG == <<"B", "I", "G">>
QueryEt == <<"U+00C9", "T">>
QueryBigB2 == <<"B", "i", "g", " ", "b", "2">>
QueryBigAB2 == <<"b", "i", "g", " ", "a", " ", "B", "2">>
QueryABig == <<"a", ",", "b", "i", "g">>
QueryB2Ab == <<"b", "2", "+", "a", "b">>
QueryBigZz == <<"b", "i", "g", " ", "z", "z">>

\* queries without a usable word: empty, one letter, punctuation, short words only
UnusableQueries ==
  {<<>>, <<"a">>, <<"-">>, <<" ">>, <<"a", " ", "B">>, <<"U+00C9">>, <<"a", "-", "2">>}

\* the queries that are sent
SearchQueries ==
  {QueryBIG, QueryEt, QueryBigAB2, QueryBigZz, <<"a">>}

\* assets are created, edited, deleted and searched for
NextSearch ==
  \/ CreateAsset(SearchInputs)
  \/ UpdateAsset(SearchUpdates)
  \/ DeleteAsset
  \/ SearchAssets(SearchQueries, {<<>>})

SpecSearch == Init /\ [][NextSearch]_vars

\* the keyspace after n createAsset calls with the one input, made at time 0
bulk(n) ==
  [EmptyRedis EXCEPT
     !.asset = [id \in 1..n |->
                  stringify([id |-> id, createdAt |-> toISOString(0),
                             updatedAt |-> toISOString(0), title |-> TitleBig,
                             description |-> <<>>, tags |-> <<>>, collections |-> <<>>,
                             mimeType |-> "video/mp4", proxyStatus |-> "pending"])],
     !.assetsIndex = [i \in 1..n |-> i],
     !.searchWord = [w \in (IF n = 0 THEN {} ELSE {<<"b", "i", "g">>}) |-> 1..n]]

\* how many assets there are: none, a few, and enough to fill more than one page
\* of the largest size
ListSizes == {0, 1, 2, MaxListed - 1, MaxListed}

Pages == {-1, 0, 1, 2}
Limits == {-1, 0, 1, 100, 200}
PageOpts == {<<>>} \cup [page : Pages] \cup [limit : Limits] \cup [page : Pages, limit : Limits]
SearchPageOpts == {<<>>, [limit |-> 0], [page |-> 2], [page |-> 0, limit |-> 200]}

InitPage ==
  /\ now = 0
  /\ \E n \in ListSizes : redis = bulk(n) /\ uuid = [asset |-> n, collection |-> 0]
  /\ last = NoCall
  /\ pipe = NoPipeline
  /\ jobs = <<>>
  /\ trace = {}
  /\ calls = [c \in Callers |-> NoUpdate]
  /\ instances = <<>>
  /\ ensure = [c \in Callers |-> NoEnsure]
  /\ listed = NoListing
  /\ wait = NoWait
  /\ clients = NoClients
  /\ run = NoRun
  /\ tasks = [c \in Callers |-> NoTask]

\* the assets are listed and searched for, page by page
NextPage ==
  \/ ListAssets(PageOpts)
  \/ SearchAssets({QueryBIG}, SearchPageOpts)

SpecPage == InitPage /\ [][NextPage]_vars

\* ------------------------------------------------ the FFmpeg job platform

\* the sleep between two status queries, in ms
FFMPEG_POLL_INTERVAL_MS == 2000

\* the statuses at which waitForFfmpegJob stops polling
terminalStatuses == {"Complete", "Failed", "Error"}

\* prefix.toLowerCase().replace(/[^a-z0-9]/g, "")
RECURSIVE sanitize(_)
sanitize(prefix) ==
  IF prefix = <<>> THEN <<>>
  ELSE (IF LowerChar(Head(prefix)) \in LowerLetters \cup Digits
          THEN <<LowerChar(Head(prefix))>> ELSE <<>>) \o sanitize(Tail(prefix))

\* the digits of Number.prototype.toString(36)
Base36 ==
  <<"0", "1", "2", "3", "4", "5", "6", "7", "8", "9", "a", "b", "c", "d", "e", "f", "g",
    "h", "i", "j", "k", "l", "m", "n", "o", "p", "q", "r", "s", "t", "u", "v", "w", "x",
    "y", "z">>

\* Date.now().toString(36)
RECURSIVE toString36(_)
toString36(n) ==
  IF n < 36 THEN <<Base36[n + 1]>> ELSE toString36(n \div 36) \o <<Base36[(n % 36) + 1]>>

\* generateFfmpegJobName: the sanitized prefix followed by Date.now() in base 36
generateFfmpegJobName(prefix, clock) == sanitize(prefix) \o toString36(clock)

\* the job name test that lets every name through
validJobNameAlways(name) == TRUE

\* /^[a-z0-9]+$/.test(jobName): one or more characters, all of the class
validJobName(name) ==
  /\ name # <<>>
  /\ \A i \in 1..Len(name) : name[i] \in LowerLetters \cup Digits

\* createFfmpegJob: reachable says whether getServiceAccessToken and createInstance
\* succeed; the platform refuses a second instance of a name. platformCalls are the
\* calls made to the platform, status is instance.status ?? "Running"
createFfmpegJob(js, name, reachable) ==
  IF ~validJobName(name)
    THEN [jobs |-> js, threw |-> TRUE, error |-> "invalid job name",
          platformCalls |-> {}, status |-> ""]
  ELSE IF ~reachable
    THEN [jobs |-> js, threw |-> TRUE, error |-> "platform",
          platformCalls |-> {"getServiceAccessToken"}, status |-> ""]
  ELSE IF name \in DOMAIN js
    THEN [jobs |-> js, threw |-> TRUE, error |-> "platform",
          platformCalls |-> {"getServiceAccessToken", "createInstance"}, status |-> ""]
  ELSE [jobs |-> set(js, name, "Running"), threw |-> FALSE, error |-> "",
        platformCalls |-> {"getServiceAccessToken", "createInstance"},
        status |-> "Running"]

\* getFfmpegJobStatus without its catch: a failed query raises
getFfmpegJobStatusUncaught(js, name, reachable) ==
  IF ~reachable THEN "raised" ELSE IF name \in DOMAIN js THEN js[name] ELSE "unknown"

\* getFfmpegJobStatus: "unknown" when the query fails or finds no instance
getFfmpegJobStatus(js, name, reachable) ==
  IF reachable /\ name \in DOMAIN js THEN js[name] ELSE "unknown"

\* the loop of waitForFfmpegJob that gives up one poll interval late
pollFfmpegJobLate(js, name, startTime, clock, reachable, maxWaitMs, pollMs) ==
  LET status == getFfmpegJobStatus(js, name, reachable)
  IN IF ~(clock - startTime < maxWaitMs + pollMs)
       THEN [returned |-> TRUE, status |-> "timeout", clock |-> clock, queried |-> FALSE]
     ELSE IF status \in terminalStatuses
       THEN [returned |-> TRUE, status |-> status, clock |-> clock, queried |-> TRUE]
     ELSE [returned |-> FALSE, status |-> status, clock |-> clock + pollMs, queried |-> TRUE]

\* waitForFfmpegJob, one turn of the loop of lines 483-499 (or its exit, 501-504):
\* returned says whether the call has returned, clock is Date.now() afterwards,
\* queried whether the turn asked for the status. The function has no try block,
\* so a status query that raised would end the call
pollFfmpegJob(js, name, startTime, clock, reachable, maxWaitMs, pollMs) ==
  LET status == getFfmpegJobStatus(js, name, reachable)
  IN IF ~(clock - startTime < maxWaitMs)
       THEN [returned |-> TRUE, status |-> "timeout", clock |-> clock, queried |-> FALSE]
     ELSE IF status = "raised"
       THEN [returned |-> TRUE, status |-> "raised", clock |-> clock, queried |-> TRUE]
     ELSE IF status \in terminalStatuses
       THEN [returned |-> TRUE, status |-> status, clock |-> clock, queried |-> TRUE]
     ELSE [returned |-> FALSE, status |-> status, clock |-> clock + pollMs, queried |-> TRUE]

\* waitForFfmpegJob as the pipeline calls it: the default maximum wait, the clock
\* counted in poll intervals
waitForFfmpegJob(js, name, startTime, clock, reachable) ==
  pollFfmpegJob(js, name, startTime, clock, reachable, MaxWaitPolls, 1)

\* how a removeFfmpegJob call can go: the token is granted and the instance
\* removed; getServiceAccessToken fails; removeInstance fails
RemoveOutcomes == {"removed", "noToken", "removeFailed"}

\* removeFfmpegJob without its try block: a failure is raised to the caller
removeFfmpegJobUncaught(js, name, outcome) ==
  IF outcome = "removed" THEN [jobs |-> del(js, name), threw |-> FALSE]
  ELSE [jobs |-> js, threw |-> TRUE]

\* removeFfmpegJob: both calls are inside the try block, the catch logs and returns
removeFfmpegJob(js, name, outcome) ==
  IF outcome = "removed" THEN [jobs |-> del(js, name), threw |-> FALSE]
  ELSE [jobs |-> js, threw |-> FALSE]

\* ---------------------------------------------------- the proxy pipeline

PrefixProxy == <<"p", "r", "o", "x", "y">>
PrefixThumb == <<"t", "h", "u", "m", "b">>

ContentTypes == {"video/mp4", "image/png"}

\* the test of line 417 that takes every asset for a video
startsWithVideoAlways(mimeType) == TRUE

\* asset.mimeType.startsWith("video/")
startsWithVideo(mimeType) == mimeType \in {"video/mp4"}

\* how a call of updateAsset can end when the store may drop the connection:
\* it returns; the first command (GET) is rejected; the record batch is applied
\* and the re-indexing batch is rejected
StoreOutcomes == {"ok", "rejected", "rejectedAfterWrite"}

\* how a call of updateAsset can end when a search-index batch does not take
\* effect while the record batch does: the removal batch of line 181 is lost (the
\* store answers its commands with errors, which exec() hands back as results
\* that nobody reads), or the re-indexing batch of line 231 is rejected
IndexOutcomes == {"ok", "removalLost", "rejectedAfterWrite"}

\* updateAsset under one of the StoreOutcomes or IndexOutcomes
updateAssetAttempt(r, id, updates, outcome) ==
  LET existing == getAsset(r, id)
  IN IF outcome = "rejected" THEN [redis |-> r, threw |-> TRUE]
     ELSE IF outcome = "rejectedAfterWrite" /\ existing # Null
       THEN [redis |-> updateAssetPipeline(removeAssetFromSearchIndex(r, existing),
                                           id, existing, updates),
             threw |-> TRUE]
     ELSE IF outcome = "removalLost" /\ existing # Null
       THEN [redis |-> indexAssetForSearch(updateAssetPipeline(r, id, existing, updates),
                                           mergeAsset(existing, updates)),
             threw |-> FALSE]
     ELSE [redis |-> updateAsset(r, id, updates).redis, threw |-> FALSE]

\* the test of line 438 that only stops on Failed
proxyFailedOnlyFailed(proxyStatus) == proxyStatus = "Failed"

\* the test of line 438
proxyFailed(proxyStatus) == proxyStatus # "Complete"

\* readyUpdates that sets the thumbnail key whatever the thumbnail job did
readyUpdatesAlways(asset, thumbStatus) ==
  [proxyKey |-> <<"proxies", asset.id, "proxy.mp4">>, proxyStatus |-> "ready",
   thumbnailKey |-> <<"thumbnails", asset.id, "thumb.jpg">>]

\* the updates of lines 453-460
readyUpdates(asset, thumbStatus) ==
  LET updates == [proxyKey |-> <<"proxies", asset.id, "proxy.mp4">>, proxyStatus |-> "ready"]
  IN IF thumbStatus = "Complete"
       THEN [thumbnailKey |-> <<"thumbnails", asset.id, "thumb.jpg">>] @@ updates
       ELSE updates

\* the catch handler of lines 464-467: the write of failed, its own failure swallowed
catchHandler(r, id, outcome) ==
  updateAssetAttempt(r, id, [proxyStatus |-> "failed"], outcome)

\* what a rejected store call adds to the trace
storeEvents(threw) == IF threw THEN {"storeRejected"} ELSE {}

\* what a removeFfmpegJob call that removed nothing adds to the trace
removeEvents(event, outcome) == IF outcome = "removed" THEN {} ELSE {event}

\* res.json({ ok: true, asset }), line 729: status 200 and the record createAsset
\* returned, serialised
resJson(asset) == [status |-> 200, body |-> [ok |-> TRUE, asset |-> stringify(asset)]]

\* a rejection of the task that ends in the catch block of the route, lines 730-733
onRejectedRaised(response) ==
  [status |-> 500, body |-> [error |-> "Failed to confirm upload"]]

\* the handler attached to the task's promise, lines 725-727: it logs the error,
\* and the response is what it was
onRejected(response) == response

\* POST /api/assets/confirm-upload: createAsset, then the pipeline is called and
\* not awaited, then the response is sent (lines 711-729); the pipeline's first
\* store command takes effect after the handler has run to its end
ConfirmUpload ==
  /\ pipe.pc = "idle"
  /\ uuid.asset < MaxAssets
  /\ \E contentType \in ContentTypes, title \in Titles, tags \in {<<>>, <<Tagab>>} :
       \E res \in {createAsset(redis, uuid.asset + 1,
                     [title |-> title, description |-> <<>>, tags |-> tags,
                      collections |-> <<>>, mimeType |-> contentType,
                      proxyStatus |-> "pending"])} :
          /\ redis' = res.redis
          /\ uuid' = [uuid EXCEPT !.asset = @ + 1]
          /\ pipe' = [pipe EXCEPT !.pc = "start", !.asset = res.ret,
                                  !.response = resJson(res.ret)]
          /\ UNCHANGED <<last, jobs, now, trace, calls, ensureVars, listed, wait, otherVars>>

\* lines 417-421: a non-video asset is marked none, outside the try block
MarkNone ==
  /\ pipe.pc = "start"
  /\ ~startsWithVideo(pipe.asset.mimeType)
  /\ \E outcome \in StoreOutcomes :
       \E res \in {updateAssetAttempt(redis, pipe.asset.id, [proxyStatus |-> "none"], outcome)} :
          /\ redis' = res.redis
          /\ pipe' = [pipe EXCEPT !.pc = IF res.threw THEN "rejected" ELSE "done",
                                  !.response = IF res.threw THEN onRejected(@) ELSE @]
          /\ trace' = trace \cup storeEvents(res.threw)
          /\ UNCHANGED <<uuid, last, jobs, now, calls, ensureVars, listed, wait, otherVars>>

\* line 424
MarkProcessing ==
  /\ pipe.pc = "start"
  /\ startsWithVideo(pipe.asset.mimeType)
  /\ \E outcome \in StoreOutcomes :
       \E res \in {updateAssetAttempt(redis, pipe.asset.id, [proxyStatus |-> "processing"],
                                      outcome)} :
          /\ redis' = res.redis
          /\ pipe' = [pipe EXCEPT !.pc = IF res.threw THEN "catch" ELSE "createProxy"]
          /\ trace' = trace \cup storeEvents(res.threw)
          /\ UNCHANGED <<uuid, last, jobs, now, calls, ensureVars, listed, wait, otherVars>>

\* lines 431-434
CreateProxyJob ==
  /\ pipe.pc = "createProxy"
  /\ \E reachable \in BOOLEAN :
       \E res \in {createFfmpegJob(jobs, generateFfmpegJobName(PrefixProxy, now), reachable)} :
          /\ jobs' = res.jobs
          /\ pipe' = [pipe EXCEPT !.pc = IF res.threw THEN "catch" ELSE "waitProxy",
                                  !.proxyJobName = generateFfmpegJobName(PrefixProxy, now),
                                  !.startTime = now]
          /\ trace' = trace \cup
                        {IF res.threw THEN "proxySubmitRejected" ELSE "proxySubmitted"}
          /\ UNCHANGED <<redis, uuid, last, now, calls, ensureVars, listed, wait, otherVars>>

\* line 435, one turn of the polling loop
WaitProxy ==
  /\ pipe.pc = "waitProxy"
  /\ \E reachable \in BOOLEAN :
       \E res \in {waitForFfmpegJob(jobs, pipe.proxyJobName, pipe.startTime, now, reachable)} :
          /\ now' = res.clock
          /\ pipe' = IF res.returned
                       THEN [pipe EXCEPT !.pc = "removeProxy", !.proxyStatus = res.status]
                       ELSE pipe
          /\ UNCHANGED <<redis, uuid, last, jobs, trace, calls, ensureVars, listed, wait, otherVars>>

\* lines 436-438
RemoveProxyJob ==
  /\ pipe.pc = "removeProxy"
  /\ \E outcome \in RemoveOutcomes :
       \E res \in {removeFfmpegJob(jobs, pipe.proxyJobName, outcome)} :
          /\ jobs' = res.jobs
          /\ pipe' = [pipe EXCEPT !.pc = IF res.threw THEN "catch"
                                        ELSE IF proxyFailed(pipe.proxyStatus)
                                          THEN "writeFailed" ELSE "createThumb"]
          /\ trace' = trace \cup removeEvents("proxyRemoveFailed", outcome)
          /\ UNCHANGED <<redis, uuid, last, now, calls, ensureVars, listed, wait, otherVars>>

\* lines 439-441
WriteFailed ==
  /\ pipe.pc = "writeFailed"
  /\ \E outcome \in StoreOutcomes :
       \E res \in {updateAssetAttempt(redis, pipe.asset.id, [proxyStatus |-> "failed"], outcome)} :
          /\ redis' = res.redis
          /\ pipe' = [pipe EXCEPT !.pc = IF res.threw THEN "catch" ELSE "done"]
          /\ trace' = trace \cup storeEvents(res.threw)
          /\ UNCHANGED <<uuid, last, jobs, now, calls, ensureVars, listed, wait, otherVars>>

\* lines 445-448
CreateThumbJob ==
  /\ pipe.pc = "createThumb"
  /\ \E reachable \in BOOLEAN :
       \E res \in {createFfmpegJob(jobs, generateFfmpegJobName(PrefixThumb, now), reachable)} :
          /\ jobs' = res.jobs
          /\ pipe' = [pipe EXCEPT !.pc = IF res.threw THEN "catch" ELSE "waitThumb",
                                  !.thumbJobName = generateFfmpegJobName(PrefixThumb, now),
                                  !.startTime = now]
          /\ trace' = trace \cup
                        {IF res.threw THEN "thumbSubmitRejected" ELSE "thumbSubmitted"}
          /\ UNCHANGED <<redis, uuid, last, now, calls, ensureVars, listed, wait, otherVars>>

\* line 449, one turn of the polling loop
WaitThumb ==
  /\ pipe.pc = "waitThumb"
  /\ \E reachable \in BOOLEAN :
       \E res \in {waitForFfmpegJob(jobs, pipe.thumbJobName, pipe.startTime, now, reachable)} :
          /\ now' = res.clock
          /\ pipe' = IF res.returned
                       THEN [pipe EXCEPT !.pc = "removeThumb", !.thumbStatus = res.status]
                       ELSE pipe
          /\ UNCHANGED <<redis, uuid, last, jobs, trace, calls, ensureVars, listed, wait, otherVars>>

\* line 450
RemoveThumbJob ==
  /\ pipe.pc = "removeThumb"
  /\ \E outcome \in RemoveOutcomes :
       \E res \in {removeFfmpegJob(jobs, pipe.thumbJobName, outcome)} :
          /\ jobs' = res.jobs
          /\ pipe' = [pipe EXCEPT !.pc = IF res.threw THEN "catch" ELSE "writeReady"]
          /\ trace' = trace \cup removeEvents("thumbRemoveFailed", outcome)
          /\ UNCHANGED <<redis, uuid, last, now, calls, ensureVars, listed, wait, otherVars>>

\* lines 453-463
WriteReady ==
  /\ pipe.pc = "writeReady"
  /\ \E outcome \in StoreOutcomes :
       \E res \in {updateAssetAttempt(redis, pipe.asset.id,
                                      readyUpdates(pipe.asset, pipe.thumbStatus), outcome)} :
          /\ redis' = res.redis
          /\ pipe' = [pipe EXCEPT !.pc = IF res.threw THEN "catch" ELSE "done"]
          /\ trace' = trace \cup storeEvents(res.threw)
          /\ UNCHANGED <<uuid, last, jobs, now, calls, ensureVars, listed, wait, otherVars>>

\* lines 464-467
Catch ==
  /\ pipe.pc = "catch"
  /\ \E outcome \in StoreOutcomes :
       \E res \in {catchHandler(redis, pipe.asset.id, outcome)} :
          /\ redis' = res.redis
          /\ pipe' = [pipe EXCEPT !.pc = "done"]
          /\ trace' = trace \cup storeEvents(res.threw)
                        \cup (IF res.threw THEN {"fallbackRejected"} ELSE {})
          /\ UNCHANGED <<uuid, last, jobs, now, calls, ensureVars, listed, wait, otherVars>>

\* the platform: a running job ends
JobEnds ==
  \E name \in DOMAIN jobs, status \in terminalStatuses :
    /\ jobs[name] = "Running"
    /\ jobs' = set(jobs, name, status)
    /\ UNCHANGED <<redis, uuid, last, pipe, now, trace, calls, ensureVars, listed, wait, otherVars>>

NextPipe ==
  \/ ConfirmUpload
  \/ MarkNone
  \/ MarkProcessing
  \/ CreateProxyJob
  \/ WaitProxy
  \/ RemoveProxyJob
  \/ WriteFailed
  \/ CreateThumbJob
  \/ WaitThumb
  \/ RemoveThumbJob
  \/ WriteReady
  \/ Catch
  \/ JobEnds
  \/ DeleteAsset

SpecPipe == Init /\ [][NextPipe]_vars

\* ------------------------------------------ FFmpeg jobs handled on their own

JobA == <<"a">>
JobP0 == <<"p", "0">>

\* the names createFfmpegJob is called with: two that match /^[a-z0-9]+$/, the
\* empty name, and names with an upper-case letter, a hyphen, an underscore, a
\* space, a dot, a letter outside a-z and a line feed at the end
JobNames ==
  {JobA, JobP0, <<>>, <<"A", "b">>, <<"a", "-", "b">>, <<"a", "_", "b">>, <<"a", " ">>,
   <<"a", ".", "b">>, <<"U+00E9">>, <<"a", "LF">>}

CreateJob(names) ==
  \E name \in names, reachable \in BOOLEAN :
    \E res \in {createFfmpegJob(jobs, name, reachable)} :
       /\ jobs' = res.jobs
       /\ last' = [op |-> "createFfmpegJob", asset |-> 0, collection |-> 0,
                   ret |-> IF res.threw THEN res.error ELSE res.status,
                   name |-> name, platformCalls |-> res.platformCalls]
       /\ UNCHANGED <<redis, uuid, pipe, now, trace, calls, ensureVars, listed, wait, otherVars>>

\* removeFfmpegJob called for a job there is
RemoveJob ==
  \E name \in DOMAIN jobs, outcome \in RemoveOutcomes :
    /\ jobs' = removeFfmpegJob(jobs, name, outcome).jobs
    /\ UNCHANGED <<redis, uuid, last, pipe, now, trace, calls, ensureVars, listed, wait, otherVars>>

\* the platform: a running job is suspended, a suspended job runs again
JobSuspends ==
  \E name \in DOMAIN jobs :
    /\ jobs[name] = "Running"
    /\ jobs' = set(jobs, name, "Suspended")
    /\ UNCHANGED <<redis, uuid, last, pipe, now, trace, calls, ensureVars, listed, wait, otherVars>>

JobResumes ==
  \E name \in DOMAIN jobs :
    /\ jobs[name] = "Suspended"
    /\ jobs' = set(jobs, name, "Running")
    /\ UNCHANGED <<redis, uuid, last, pipe, now, trace, calls, ensureVars, listed, wait, otherVars>>

\* jobs are submitted under all kinds of names, end and are removed
NextJob ==
  \/ CreateJob(JobNames)
  \/ JobEnds
  \/ RemoveJob

SpecJob == Init /\ [][NextJob]_vars

\* the maximum waits waitForFfmpegJob is called with, in ms: negative, zero, less
\* than a poll interval, whole numbers of poll intervals, and in between
WaitLimits ==
  {-FFMPEG_POLL_INTERVAL_MS, -1, 0, 1, FFMPEG_POLL_INTERVAL_MS, FFMPEG_POLL_INTERVAL_MS + 1,
   MaxWaitPolls * FFMPEG_POLL_INTERVAL_MS - 1, MaxWaitPolls * FFMPEG_POLL_INTERVAL_MS}

\* waitForFfmpegJob is called: lines 476-477
StartWait(names, limits) ==
  /\ wait.pc = "idle"
  /\ \E name \in names, maxWaitMs \in limits :
       wait' = [NoWait EXCEPT !.pc = "polling", !.name = name, !.maxWaitMs = maxWaitMs,
                              !.startTime = now]
  /\ UNCHANGED <<redis, uuid, last, pipe, jobs, now, trace, calls, ensureVars, listed, otherVars>>

\* one turn of the loop of waitForFfmpegJob, the clock counted in ms; reported is
\* what the platform held when it was asked, "none" for no answer or no job
WaitTurn ==
  /\ wait.pc = "polling"
  /\ \E reachable \in BOOLEAN :
       \E res \in {pollFfmpegJob(jobs, wait.name, wait.startTime, now, reachable,
                                 wait.maxWaitMs, FFMPEG_POLL_INTERVAL_MS)} :
          /\ now' = res.clock
          /\ wait' = [wait EXCEPT
                        !.pc = IF ~res.returned THEN "polling"
                               ELSE IF res.status = "raised" THEN "raised" ELSE "returned",
                        !.queries = IF res.queried THEN @ + 1 ELSE @,
                        !.reported = IF ~res.queried THEN @
                                     ELSE IF reachable /\ wait.name \in DOMAIN jobs
                                       THEN jobs[wait.name] ELSE "none",
                        !.latest = IF res.queried THEN res.status ELSE @,
                        !.result = IF res.returned THEN res.status ELSE @]
  /\ UNCHANGED <<redis, uuid, last, pipe, jobs, trace, calls, ensureVars, listed, otherVars>>

\* a job is submitted, changes on the platform and is waited for
NextWait ==
  \/ CreateJob({JobA})
  \/ JobSuspends
  \/ JobResumes
  \/ JobEnds
  \/ RemoveJob
  \/ StartWait({JobA}, WaitLimits)
  \/ WaitTurn

SpecWait == Init /\ [][NextWait]_vars

\* every status query settles, so each turn of the polling loop is taken
SpecWaitFair == SpecWait /\ WF_vars(WaitTurn)

\* ------------------------------------- updateAsset calls that interleave

\* the updates the callers send
TitleUpdates == [title : Titles]
TagUpdates == [tags : {<<>>, <<Tagab>>}]
CallerUpdates(n) == TitleUpdates \cup TagUpdates \cup MemberUpdates(n)

\* the updates triggerProxyGeneration sends for asset id (lines 424 and 453-462)
StatusUpdates(id) == {[proxyStatus |-> "processing"], readyUpdates([id |-> id], "Complete")}

\* the assets the callers find
CallerInputs(n) ==
  [title : {TitleBig}, description : {<<>>}, tags : {<<>>, <<Tagab>>},
   collections : CollectionLists(n), mimeType : {"video/mp4"}, proxyStatus : {"pending"}]

\* nobody is inside updateAsset (the asset the callers update is created before,
\* and is the only one)
Quiet == \A c \in Callers : calls[c].pc = "idle"

\* line 177-178: the read, and the return of null when there is no record
ReadStep(c) ==
  /\ calls[c].pc = "idle"
  /\ \E id \in 1..uuid.asset :
     \E updates \in CallerUpdates(uuid.collection) \cup StatusUpdates(id) :
       calls' = [calls EXCEPT ![c] =
                   [@ EXCEPT !.pc = IF getAsset(redis, id) = Null THEN "returned" ELSE "read",
                             !.id = id, !.updates = updates,
                             !.existing = getAsset(redis, id), !.snapshot = redis]]
  /\ UNCHANGED <<redis, uuid, last, pipe, jobs, now, trace, ensureVars, listed, wait, otherVars>>

\* line 181
RemoveStep(c) ==
  /\ calls[c].pc = "read"
  /\ redis' = removeAssetFromSearchIndex(redis, calls[c].existing)
  /\ calls' = [calls EXCEPT ![c].pc = "removed"]
  /\ UNCHANGED <<uuid, last, pipe, jobs, now, trace, ensureVars, listed, wait, otherVars>>

\* lines 183-228
WriteStep(c) ==
  /\ calls[c].pc = "removed"
  /\ redis' = updateAssetPipeline(redis, calls[c].id, calls[c].existing, calls[c].updates)
  /\ calls' = [calls EXCEPT ![c] =
                 [@ EXCEPT !.pc = "written",
                           !.rank = 1 + Cardinality({d \in Callers : calls[d].rank > 0}),
                           !.overlapped = \A d \in Callers : calls[d].pc \in {"read", "removed"}]]
  /\ UNCHANGED <<uuid, last, pipe, jobs, now, trace, ensureVars, listed, wait, otherVars>>

\* lines 231-234
IndexStep(c) ==
  /\ calls[c].pc = "written"
  /\ redis' = indexAssetForSearch(redis, mergeAsset(calls[c].existing, calls[c].updates))
  /\ calls' = [calls EXCEPT ![c].pc = "returned"]
  /\ UNCHANGED <<uuid, last, pipe, jobs, now, trace, ensureVars, listed, wait, otherVars>>

NextConc ==
  \/ Quiet /\ uuid.asset = 0 /\ CreateAsset(CallerInputs(uuid.collection))
  \/ Quiet /\ CreateCollection
  \/ \E c \in Callers : ReadStep(c)
  \/ \E c \in Callers : RemoveStep(c)
  \/ \E c \in Callers : WriteStep(c)
  \/ \E c \in Callers : IndexStep(c)

SpecConc == Init /\ [][NextConc]_vars

\* the calls of updateAsset in steps, and deleteAsset called while they run
NextGone ==
  \/ Quiet /\ uuid.asset = 0 /\ CreateAsset(CallerInputs(uuid.collection))
  \/ Quiet /\ CreateCollection
  \/ \E c \in Callers : ReadStep(c)
  \/ \E c \in Callers : RemoveStep(c)
  \/ \E c \in Callers : WriteStep(c)
  \/ \E c \in Callers : IndexStep(c)
  \/ DeleteAsset

SpecGone == Init /\ [][NextGone]_vars

\* ------------------------------------------ provisioning MinIO and Valkey

\* line 44
RETRY_MAX_ATTEMPTS == 3
RETRY_BASE_DELAY_MS == 1000

\* what ensureUserServices provisions: MinIO as mamstorage, Valkey as mamcache
Targets ==
  {[service |-> "minio-minio", name |-> "mamstorage"],
   [service |-> "valkey-io-valkey", name |-> "mamcache"]}

\* getInstance: is there an instance of the service with that name
getInstance(insts, service, name) ==
  \E i \in 1..Len(insts) : insts[i] = [service |-> service, name |-> name]

\* how one createInstance call can end: the platform makes the instance; it fails
\* for a passing reason; it answers that the name is taken. What the platform
\* does with a name that is taken is its own business: it may refuse or make a
\* second instance
createInstanceOutcomes(insts, service, name) ==
  IF getInstance(insts, service, name) THEN {"exists", "created"} ELSE {"created", "transient"}

\* withRetry that gives up at the first error
withRetryOnce(e, insts, outcome) ==
  IF outcome = "created"
    THEN [ensure |-> [e EXCEPT !.pc = "waitReady", !.invocations = @ + 1, !.created = TRUE],
          instances |-> Append(insts, [service |-> e.service, name |-> e.name])]
    ELSE [ensure |-> [e EXCEPT !.pc = "threw", !.invocations = @ + 1,
                               !.errors = Append(@, outcome), !.thrown = outcome,
                               !.attempt = @ + 1, !.failures = @ \cup {outcome}],
          instances |-> insts]

\* withRetry, one turn of the loop of lines 122-133 around createInstance: the
\* call is made; a result is returned at once; any error is kept as lastError and
\* followed by a sleep of RETRY_BASE_DELAY_MS * 2^attempt, and the last error is
\* thrown when the attempts are used up
withRetry(e, insts, outcome) ==
  IF outcome = "created"
    THEN [ensure |-> [e EXCEPT !.pc = "waitReady", !.invocations = @ + 1, !.created = TRUE],
          instances |-> Append(insts, [service |-> e.service, name |-> e.name])]
    ELSE [ensure |-> [e EXCEPT !.pc = IF e.attempt + 1 < RETRY_MAX_ATTEMPTS
                                        THEN "create" ELSE "threw",
                               !.invocations = @ + 1,
                               !.errors = Append(@, outcome),
                               !.delays = Append(@, RETRY_BASE_DELAY_MS * 2^e.attempt),
                               !.thrown = IF e.attempt + 1 < RETRY_MAX_ATTEMPTS
                                            THEN @ ELSE outcome,
                               !.attempt = @ + 1,
                               !.failures = @ \cup {outcome}],
          instances |-> insts]

\* how the lookup can end: the platform answers, or the token request or the
\* lookup itself fails
LookupOutcomes == {"answered", "failed"}

\* lines 185-192 and 285-293: the token, the lookup by name, and the return of the
\* existing instance's connection facts
lookedUp(e, insts, target, outcome) ==
  IF outcome = "failed"
    THEN [e EXCEPT !.pc = "threw", !.service = target.service, !.name = target.name,
                   !.thrown = "lookupFailed"]
    ELSE [e EXCEPT !.pc = IF getInstance(insts, target.service, target.name)
                            THEN "returned" ELSE "create",
                   !.service = target.service, !.name = target.name,
                   !.existing = getInstance(insts, target.service, target.name)]

\* how waitForInstanceReady can end
ReadyOutcomes == {"ready", "neverReady"}

\* the wait that returns the connection facts whatever the platform reports
waitedForReadyAnyway(e, outcome) == [e EXCEPT !.pc = "returned"]

\* lines 205-209 and 307-312: waitForInstanceReady, then the connection facts
waitedForReady(e, outcome) ==
  IF outcome = "ready" THEN [e EXCEPT !.pc = "returned", !.ready = TRUE]
  ELSE [e EXCEPT !.pc = "threw", !.thrown = "notReady"]

\* ensureMinioInstance lines 185-192, ensureValkeyInstance lines 285-293: the lookup
Lookup(c) ==
  /\ ensure[c].pc = "idle"
  /\ \E target \in Targets, outcome \in LookupOutcomes :
       ensure' = [ensure EXCEPT ![c] = lookedUp(@, instances, target, outcome)]
  /\ UNCHANGED <<redis, uuid, last, pipe, jobs, now, trace, calls, instances, listed, wait, otherVars>>

\* lines 196-202 and 297-304: one attempt of the create call
CreateAttempt(c) ==
  /\ ensure[c].pc = "create"
  /\ \E outcome \in createInstanceOutcomes(instances, ensure[c].service, ensure[c].name) :
       \E res \in {withRetry(ensure[c], instances, outcome)} :
          /\ ensure' = [ensure EXCEPT ![c] = res.ensure]
          /\ instances' = res.instances
  /\ UNCHANGED <<redis, uuid, last, pipe, jobs, now, trace, calls, listed, wait, otherVars>>

\* lines 205-209 and 307-312: the wait for the instance, then the connection facts
WaitReady(c) ==
  /\ ensure[c].pc = "waitReady"
  /\ \E outcome \in ReadyOutcomes :
       ensure' = [ensure EXCEPT ![c] = waitedForReady(@, outcome)]
  /\ UNCHANGED <<redis, uuid, last, pipe, jobs, now, trace, calls, instances, listed, wait, otherVars>>

NextEnsure ==
  \/ \E c \in Callers : Lookup(c)
  \/ \E c \in Callers : CreateAttempt(c)
  \/ \E c \in Callers : WaitReady(c)

SpecEnsure == Init /\ [][NextEnsure]_vars

\* every createInstance call settles, so each turn of withRetry's loop is taken
SpecEnsureFair == SpecEnsure /\ \A c \in Callers : WF_vars(CreateAttempt(c))

\* ------------------------------------ updateAsset with index batches that fail

\* updateAsset is called and ends in one of the outcomes; before is how the
\* previous updateAsset call of the asset ended, merged the record the call wrote
UpdateAssetUnder(inputs, outcomes) ==
  \E id \in AssetIds, updates \in inputs, outcome \in outcomes :
    \E res \in {updateAssetAttempt(redis, id, updates, outcome)} :
       /\ Explored(res.redis)
       /\ redis' = res.redis
       /\ last' = [op |-> "updateAsset", asset |-> id, collection |-> 0,
                   ret |-> IF getAsset(redis, id) = Null THEN "null"
                           ELSE IF res.threw THEN "threw" ELSE "asset",
                   outcome |-> outcome,
                   before |-> IF last.op = "updateAsset" THEN last.outcome ELSE "none",
                   merged |-> IF getAsset(redis, id) = Null THEN Null
                              ELSE stringify(mergeAsset(getAsset(redis, id), updates))]
       /\ UNCHANGED <<uuid, taskVars>>

\* one asset is created and then updated, with index batches that get lost
NextStale ==
  \/ uuid.asset = 0 /\ CreateAsset(TextInputs)
  \/ UpdateAssetUnder(TextUpdates, IndexOutcomes)

SpecStale == Init /\ [][NextStale]_vars

\* ------------------------------------- pipelines that run side by side

\* how the store calls of these pipelines end: they return or are rejected
TaskOutcomes == {"ok", "rejected"}

\* the prefix of the job of a stage, lines 431 and 445
prefixOf(stage) == IF stage = "proxy" THEN PrefixProxy ELSE PrefixThumb

\* POST /api/assets/confirm-upload for a caller: the asset is created and its
\* pipeline started, not awaited
Upload(c) ==
  /\ tasks[c].pc = "idle"
  /\ uuid.asset < MaxAssets
  /\ \E contentType \in ContentTypes :
       \E res \in {createAsset(redis, uuid.asset + 1,
                     [title |-> TitleBig, description |-> <<>>, tags |-> <<>>,
                      collections |-> <<>>, mimeType |-> contentType,
                      proxyStatus |-> "pending"])} :
          /\ redis' = res.redis
          /\ uuid' = [uuid EXCEPT !.asset = @ + 1]
          /\ tasks' = [tasks EXCEPT ![c] = [@ EXCEPT !.pc = "start", !.asset = res.ret]]
          /\ UNCHANGED <<last, pipe, jobs, now, trace, calls, ensureVars, listed, wait,
                         clients, run>>

\* lines 417-424: a non-video asset is marked none and the pipeline returns; a
\* video asset is marked processing
TaskStart(c) ==
  /\ tasks[c].pc = "start"
  /\ \E outcome \in TaskOutcomes :
       \E res \in {updateAssetAttempt(redis, tasks[c].asset.id,
                      [proxyStatus |-> IF startsWithVideo(tasks[c].asset.mimeType)
                                         THEN "processing" ELSE "none"], outcome)} :
          /\ redis' = res.redis
          /\ tasks' = [tasks EXCEPT ![c] =
                         [@ EXCEPT !.pc = IF ~startsWithVideo(tasks[c].asset.mimeType)
                                            THEN "done"
                                          ELSE IF res.threw THEN "catch" ELSE "create",
                                   !.stage = "proxy"]]
          /\ UNCHANGED <<uuid, last, pipe, jobs, now, trace, calls, ensureVars, listed, wait,
                         clients, run>>

\* lines 431-434 and 445-448: the name is generated from the clock and the job
\* submitted; submitted are the names that reached createInstance
TaskCreate(c) ==
  /\ tasks[c].pc = "create"
  /\ \E reachable \in BOOLEAN :
     \E name \in {generateFfmpegJobName(prefixOf(tasks[c].stage), now)} :
       \E res \in {createFfmpegJob(jobs, name, reachable)} :
          /\ jobs' = res.jobs
          /\ tasks' = [tasks EXCEPT ![c] =
                         [@ EXCEPT !.pc = IF res.threw THEN "catch" ELSE "wait",
                                   !.name = name, !.startTime = now,
                                   !.submitted = IF "createInstance" \in res.platformCalls
                                                   THEN @ \cup {name} ELSE @]]
          /\ UNCHANGED <<redis, uuid, last, pipe, now, trace, calls, ensureVars, listed, wait,
                         clients, run>>

\* lines 435 and 449, one turn of the polling loop, the clock in ms; polled are
\* the names whose status was asked for. The runs explored sleep once, so two
\* names are generated in the same millisecond or one poll interval apart
TaskWait(c) ==
  /\ tasks[c].pc = "wait"
  /\ \E reachable \in BOOLEAN :
       \E res \in {pollFfmpegJob(jobs, tasks[c].name, tasks[c].startTime, now, reachable,
                                 MaxWaitPolls * FFMPEG_POLL_INTERVAL_MS,
                                 FFMPEG_POLL_INTERVAL_MS)} :
          /\ res.clock <= FFMPEG_POLL_INTERVAL_MS
          /\ now' = res.clock
          /\ tasks' = [tasks EXCEPT ![c] =
                         [@ EXCEPT !.pc = IF res.returned THEN "remove" ELSE @,
                                   !.status = IF res.returned THEN res.status ELSE @,
                                   !.polled = IF res.queried THEN @ \cup {tasks[c].name}
                                              ELSE @]]
          /\ UNCHANGED <<redis, uuid, last, pipe, jobs, trace, calls, ensureVars, listed, wait,
                         clients, run>>

\* lines 436-438 and 450: the job is removed; removed are the names that reached
\* removeInstance
TaskRemove(c) ==
  /\ tasks[c].pc = "remove"
  /\ \E outcome \in RemoveOutcomes :
       \E res \in {removeFfmpegJob(jobs, tasks[c].name, outcome)} :
          /\ jobs' = res.jobs
          /\ tasks' = [tasks EXCEPT ![c] =
                         [@ EXCEPT !.pc = IF res.threw THEN "catch"
                                          ELSE IF tasks[c].stage = "thumb" THEN "writeReady"
                                          ELSE IF proxyFailed(tasks[c].status)
                                            THEN "writeFailed" ELSE "create",
                                   !.stage = IF ~res.threw /\ ~proxyFailed(tasks[c].status)
                                               THEN "thumb" ELSE @,
                                   !.removed = IF outcome = "noToken" THEN @
                                               ELSE @ \cup {tasks[c].name}]]
          /\ UNCHANGED <<redis, uuid, last, pipe, now, trace, calls, ensureVars, listed, wait,
                         clients, run>>

\* lines 439-441, 453-463 and 464-467: the status write that ends the pipeline
TaskWrite(c) ==
  /\ tasks[c].pc \in {"writeFailed", "writeReady", "catch"}
  /\ \E outcome \in TaskOutcomes :
       \E res \in {IF tasks[c].pc = "catch"
                     THEN catchHandler(redis, tasks[c].asset.id, outcome)
                   ELSE updateAssetAttempt(redis, tasks[c].asset.id,
                          IF tasks[c].pc = "writeFailed" THEN [proxyStatus |-> "failed"]
                          ELSE readyUpdates(tasks[c].asset, tasks[c].status), outcome)} :
          /\ redis' = res.redis
          /\ tasks' = [tasks EXCEPT ![c].pc = IF tasks[c].pc = "writeReady" /\ res.threw
                                                THEN "catch" ELSE "done"]
          /\ UNCHANGED <<uuid, last, pipe, jobs, now, trace, calls, ensureVars, listed, wait,
                         clients, run>>

\* two uploads are confirmed and their pipelines run side by side
NextNames ==
  \/ \E c \in Callers : Upload(c)
  \/ \E c \in Callers : TaskStart(c)
  \/ \E c \in Callers : TaskCreate(c)
  \/ \E c \in Callers : TaskWait(c)
  \/ \E c \in Callers : TaskRemove(c)
  \/ \E c \in Callers : TaskWrite(c)
  \/ JobEnds

SpecNames == Init /\ [][NextNames]_vars

\* ------------------------------------------- store commands, one by one

\* one command as it is queued on a pipeline or sent on its own; family is the
\* group of keys (asset:<id>, assets:index, tags:all, assets:by-collection:<id>,
\* search:word:<w>), and the fields a command does not use are 0
command(cmd, family, key, member, n, value) ==
  [cmd |-> cmd, family |-> family, key |-> key, member |-> member, n |-> n, value |-> value]

\* what one command does to the keyspace
apply(r, c) ==
  CASE c.cmd = "SET" -> [r EXCEPT !.asset = set(@, c.key, c.value)]
    [] c.cmd = "DEL" -> [r EXCEPT !.asset = del(@, c.key)]
    [] c.cmd = "ZREM" -> [r EXCEPT !.assetsIndex = zrem(@, c.member)]
    [] c.cmd = "ZINCRBY" -> [r EXCEPT !.tagsAll = zincrby(@, c.n, c.member)]
    [] c.cmd = "ZREMRANGEBYSCORE" -> [r EXCEPT !.tagsAll = zremrangebyscoreUpTo0(@)]
    [] c.cmd = "SADD" -> [r EXCEPT ![c.family] = sadd(@, c.key, c.member)]
    [] c.cmd = "SREM" -> [r EXCEPT ![c.family] = srem(@, c.key, c.member)]

\* the commands of a list, in order
RECURSIVE exec(_, _)
exec(r, commands) ==
  IF commands = <<>> THEN r ELSE exec(apply(r, Head(commands)), Tail(commands))

\* indexAssetForSearch (SADD) / removeAssetFromSearchIndex (SREM): one command per
\* extracted word
wordCommands(cmd, asset) ==
  LET words == setToSeq(extractWords(asset))
  IN [i \in 1..Len(words) |-> command(cmd, "searchWord", words[i], asset.id, 0, 0)]

\* one ZINCRBY tags:all n tag per tag of a list
tagCommands(n, tags) == [i \in 1..Len(tags) |-> command("ZINCRBY", "tagsAll", 0, tags[i], n, 0)]

\* one SADD / SREM assets:by-collection:<cid> id per collection of a list
memberCommands(cmd, collections, id) ==
  [i \in 1..Len(collections) |-> command(cmd, "assetsByCollection", collections[i], id, 0, 0)]

\* updateAsset, lines 196-226: the pipeline in the order its commands are queued
updateAssetBatch(id, existing, updates) ==
  LET oldTags == mapLower(existing.tags)
      newTags == mapLower(IF "tags" \in DOMAIN updates THEN updates.tags ELSE existing.tags)
      oldCollections == existing.collections
      newCollections == IF "collections" \in DOMAIN updates
                          THEN updates.collections ELSE existing.collections
  IN <<command("SET", "asset", id, 0, 0, stringify(mergeAsset(existing, updates)))>>
       \o tagCommands(1, filterNotIn(newTags, oldTags))
       \o tagCommands(-1, filterNotIn(oldTags, newTags))
       \o memberCommands("SADD", filterNotIn(newCollections, oldCollections), id)
       \o memberCommands("SREM", filterNotIn(oldCollections, newCollections), id)

\* updateAsset, lines 181-231: every write command of the call in the order sent
updateAssetCommands(id, existing, updates) ==
  wordCommands("SREM", existing)
    \o updateAssetBatch(id, existing, updates)
    \o wordCommands("SADD", mergeAsset(existing, updates))

\* deleteAsset, lines 247-263: the pipeline in the order its commands are queued
deleteAssetBatch(id, asset) ==
  <<command("DEL", "asset", id, 0, 0, 0), command("ZREM", "assetsIndex", 0, id, 0, 0)>>
    \o tagCommands(-1, mapLower(asset.tags))
    \o memberCommands("SREM", asset.collections, id)

\* deleteAsset, lines 245-268: every write command of the call in the order sent
deleteAssetCommands(id, asset) ==
  wordCommands("SREM", asset)
    \o deleteAssetBatch(id, asset)
    \o <<command("ZREMRANGEBYSCORE", "tagsAll", 0, 0, 0, 0)>>

\* createAsset inputs of the assets whose calls are watched command by command
StepInputs(n) ==
  [title : {TitleBigB2}, description : {<<>>}, tags : {<<>>, <<Tagab>>},
   collections : CollectionLists(n), mimeType : {"video/mp4"}, proxyStatus : {"pending"}]

\* updateAsset updates that change the tags and the collections at once, or the title
StepUpdates(n) ==
  [tags : {<<>>, <<Tagab>>}, collections : CollectionLists(n)] \cup [title : {TitleBig}]

\* no call is between two of its commands
Settled == run.pc # "running"

\* updateAsset is called: the read of line 177, and the return of null
StartUpdate(inputs) ==
  /\ Settled
  /\ \E id \in AssetIds, updates \in inputs :
       LET existing == getAsset(redis, id)
       IN run' = IF existing = Null
                   THEN [NoRun EXCEPT !.op = "updateAsset", !.id = id, !.pc = "returned"]
                   ELSE [NoRun EXCEPT !.op = "updateAsset", !.id = id, !.pc = "running",
                                      !.queue = updateAssetCommands(id, existing, updates)]
  /\ UNCHANGED <<redis, uuid, last, pipe, jobs, now, trace, calls, ensureVars, listed, wait,
                 clients, tasks>>

\* deleteAsset is called: the read of line 241, and the return of false
StartDelete ==
  /\ Settled
  /\ \E id \in AssetIds :
       LET asset == getAsset(redis, id)
       IN run' = IF asset = Null
                   THEN [NoRun EXCEPT !.op = "deleteAsset", !.id = id, !.pc = "returned"]
                   ELSE [NoRun EXCEPT !.op = "deleteAsset", !.id = id, !.pc = "running",
                                      !.queue = deleteAssetCommands(id, asset)]
  /\ UNCHANGED <<redis, uuid, last, pipe, jobs, now, trace, calls, ensureVars, listed, wait,
                 clients, tasks>>

\* the store executes the next command of the call; after the last one the call
\* returns
Command ==
  /\ run.pc = "running"
  /\ redis' = apply(redis, Head(run.queue))
  /\ run' = [run EXCEPT !.queue = Tail(@), !.done = Append(@, Head(run.queue)),
                        !.pc = IF Len(run.queue) = 1 THEN "returned" ELSE "running"]
  /\ UNCHANGED <<uuid, last, pipe, jobs, now, trace, calls, ensureVars, listed, wait,
                 clients, tasks>>

\* assets and collections are created between the calls; updateAsset and
\* deleteAsset run one store command at a time
NextSteps ==
  \/ Settled /\ CreateCollection
  \/ Settled /\ CreateAsset(StepInputs(uuid.collection))
  \/ StartUpdate(StepUpdates(uuid.collection))
  \/ StartDelete
  \/ Command

SpecSteps == Init /\ [][NextSteps]_vars

\* ------------------------------------------------------- the client caches

\* the Valkey URLs of the sessions
ValkeyUrls == {"redis://a:6379", "redis://b:6379", "redis://c:6379"}

\* the MinIO credentials of the sessions: two of them name the same endpoint
MinioCreds ==
  {[endpoint |-> "http://a:9000", accessKeyId |-> "k1"],
   [endpoint |-> "http://a:9000", accessKeyId |-> "k2"],
   [endpoint |-> "http://b:9000", accessKeyId |-> "k1"]}

\* new Redis(url) / createS3Client(creds): a client is the next one ever constructed
constructed(c, kind, key) == Append(c.made, [kind |-> kind, key |-> key])

\* getRedis that constructs a client on every call
getRedisUncached(c, valkeyUrl) ==
  [c EXCEPT !.redisClients = set(@, valkeyUrl, Len(c.made) + 1),
            !.made = constructed(c, "Redis", valkeyUrl),
            !.returned = [kind |-> "Redis", key |-> valkeyUrl, client |-> Len(c.made) + 1]]

\* getRedis, lines 105-110: has, set(new Redis), get
getRedis(c, valkeyUrl) ==
  LET after == IF valkeyUrl \in DOMAIN c.redisClients THEN c
               ELSE [c EXCEPT !.redisClients = set(@, valkeyUrl, Len(c.made) + 1),
                              !.made = constructed(c, "Redis", valkeyUrl)]
  IN [after EXCEPT !.returned = [kind |-> "Redis", key |-> valkeyUrl,
                                 client |-> after.redisClients[valkeyUrl]]]

\* getS3, lines 112-118: the key is creds.endpoint
getS3(c, creds) ==
  LET key == creds.endpoint
      after == IF key \in DOMAIN c.s3Clients THEN c
               ELSE [c EXCEPT !.s3Clients = set(@, key, Len(c.made) + 1),
                              !.made = constructed(c, "S3", key)]
  IN [after EXCEPT !.returned = [kind |-> "S3", key |-> key, client |-> after.s3Clients[key]]]

\* a route handler asks for the store client of its session
GetRedis ==
  /\ \E valkeyUrl \in ValkeyUrls : clients' = getRedis(clients, valkeyUrl)
  /\ UNCHANGED <<redis, uuid, last, pipe, jobs, now, trace, calls, ensureVars, listed, wait,
                 run, tasks>>

\* a route handler asks for the storage client of its session
GetS3 ==
  /\ \E creds \in MinioCreds : clients' = getS3(clients, creds)
  /\ UNCHANGED <<redis, uuid, last, pipe, jobs, now, trace, calls, ensureVars, listed, wait,
                 run, tasks>>

NextClients ==
  \/ GetRedis
  \/ GetS3

SpecClients == Init /\ [][NextClients]_vars

\* ------------------------------------------ what the records say (re-derived)

\* the ids of the live assets: the keys asset:<id> that exist
liveAssets(r) == DOMAIN r.asset

\* the live assets whose lower-cased tag list contains tag
carriers(r, tag) == { id \in liveAssets(r) : includes(mapLower(r.asset[id].tags), tag) }

\* every tag that has a counter or is carried by a live asset
knownTags(r) ==
  DOMAIN r.tagsAll \cup
    UNION { { toLowerCase(r.asset[id].tags[i]) : i \in 1..Len(r.asset[id].tags) } :
            id \in liveAssets(r) }

\* every tag counter is the number of live assets that carry the tag
tagCountersRederived(r) ==
  \A tag \in knownTags(r) : zscore(r.tagsAll, tag) = Cardinality(carriers(r, tag))

\* the live assets whose collections field contains collectionId
assetsNaming(r, collectionId) ==
  { id \in liveAssets(r) : includes(r.asset[id].collections, collectionId) }

\* the words of an asset, read off the text: the lower-cased maximal runs of
\* letters and digits, of length 2 or more, of title, description and tags
runsOf(text) ==
  { SubSeq(text, p[1], p[2]) : p \in
      { q \in (1..Len(text)) \X (1..Len(text)) :
          /\ q[1] <= q[2]
          /\ \A k \in q[1]..q[2] : IsWordChar(text[k])
          /\ (q[1] = 1 \/ ~IsWordChar(text[q[1] - 1]))
          /\ (q[2] = Len(text) \/ ~IsWordChar(text[q[2] + 1])) } }

wordsOfField(field) == { w \in runsOf(toLowerCase(field)) : Len(w) >= 2 }

wordsOf(asset) ==
  wordsOfField(asset.title) \cup wordsOfField(asset.description)
    \cup UNION { wordsOfField(asset.tags[i]) : i \in 1..Len(asset.tags) }

\* the live assets that yield word
assetsYielding(r, word) == { id \in liveAssets(r) : word \in wordsOf(r.asset[id]) }

\* every word that has a set or is yielded by a live asset
knownWords(r) == DOMAIN r.searchWord \cup UNION { wordsOf(r.asset[id]) : id \in liveAssets(r) }

\* ----------------------------------------------------------------- claims

\* C1: after any sequence of createAsset, updateAsset and deleteAsset calls run one
\* at a time, the score of every tag in tags:all (0 when missing) is the number of
\* live assets whose lower-cased tag list contains the tag, whatever tag lists
\* were passed (repeated tags, tags differing only by case).
C1_TagCounterIsCarrierCount == tagCountersRederived(redis)

\* C2: after any sequence of asset and collection calls run one at a time, every
\* membership set assets:by-collection:C is the set of ids of the live assets
\* whose collections field contains C.
C2_MembershipIsBackReference ==
  \A c \in CollectionIds \cup DOMAIN redis.assetsByCollection :
    smembers(redis.assetsByCollection, c) = assetsNaming(redis, c)

\* C2 witness: two live assets, exactly one of them a member of a collection, and
\* the call that returned last removed the other one from it
C2_Witness ==
  /\ last.op = "removeAssetFromCollection"
  /\ last.ret = "void"
  /\ Cardinality(liveAssets(redis)) = 2
  /\ \E c \in CollectionIds :
       /\ Cardinality(smembers(redis.assetsByCollection, c)) = 1
       /\ c = last.collection
       /\ last.asset \notin smembers(redis.assetsByCollection, c)

C4_OrderingIndexIsLiveAssets == zmembers(redis.assetsIndex) = liveAssets(redis)

\* C4 witness: a deleteAsset returned true and another asset is still live
C4_Witness ==
  /\ last.op = "deleteAsset"
  /\ last.ret = "true"
  /\ liveAssets(redis) # {}

\* C5: after deleteAsset(A) returns true, getAsset(A) is null, A is in no ordering
\* index, membership set or search-word set, and every tag counter equals the
\* value re-derived from the remaining live assets.
C5_DeleteIsComplete ==
  (last.op = "deleteAsset" /\ last.ret = "true") =>
    /\ getAsset(redis, last.asset) = Null
    /\ last.asset \notin zmembers(redis.assetsIndex)
    /\ \A c \in DOMAIN redis.assetsByCollection : last.asset \notin redis.assetsByCollection[c]
    /\ \A w \in DOMAIN redis.searchWord : last.asset \notin redis.searchWord[w]
    /\ tagCountersRederived(redis)

\* ------------------------------------------------- the pipeline's outcomes

\* the asset of the pipeline as the store holds it
persisted == getAsset(redis, pipe.asset.id)

\* triggerProxyGeneration has returned or rejected, and its asset is still there
Finished == pipe.pc \in {"done", "rejected"} /\ persisted # Null

\* no store call of the pipeline was rejected
StoreHeld == "storeRejected" \notin trace

ProxyKeyOf(id) == <<"proxies", id, "proxy.mp4">>

\* the thumbnail job was polled to an end other than Complete after a proxy job
\* that was polled as Complete, and the store took every write
ThumbnailLost ==
  /\ Finished
  /\ StoreHeld
  /\ pipe.proxyStatus = "Complete"
  /\ pipe.thumbStatus \in {"Error", "Failed", "timeout"}

ReadyWithoutThumbnail ==
  /\ persisted.proxyStatus = "ready"
  /\ "proxyKey" \in DOMAIN persisted
  /\ persisted.proxyKey = ProxyKeyOf(pipe.asset.id)
  /\ "thumbnailKey" \notin DOMAIN persisted

\* C6: for a video asset whose proxy job is polled as Complete and whose thumbnail
\* job is polled as Error or Failed or times out, triggerProxyGeneration ends with
\* the stored asset at proxyStatus ready, proxyKey proxies/<id>/proxy.mp4 and no
\* thumbnailKey (the store taking every write, the asset not deleted meanwhile)
C6_ThumbnailFailureStillReady == ThumbnailLost => ReadyWithoutThumbnail

C6_Witness == ThumbnailLost /\ ReadyWithoutThumbnail /\ pipe.thumbStatus = "Error"

\* the proxy job was polled to an end other than Complete
ProxyLost == pipe.proxyStatus \in {"Failed", "Error", "timeout"}

NoThumbnailJob ==
  /\ "thumbSubmitted" \notin trace
  /\ "thumbSubmitRejected" \notin trace
  /\ \A name \in DOMAIN jobs : SubSeq(name, 1, Len(PrefixThumb)) # PrefixThumb

FailedWithoutKeys ==
  /\ persisted.proxyStatus = "failed"
  /\ "proxyKey" \notin DOMAIN persisted
  /\ "thumbnailKey" \notin DOMAIN persisted

\* C7: for a video asset whose proxy job is polled to Failed, Error or timeout, no
\* thumbnail job is ever submitted, and triggerProxyGeneration ends with the stored
\* asset at proxyStatus failed with neither proxyKey nor thumbnailKey (the store
\* taking every write, the asset not deleted meanwhile)
C7_ProxyFailureEndsFailed ==
  /\ ProxyLost => NoThumbnailJob
  /\ (ProxyLost /\ Finished /\ StoreHeld) => FailedWithoutKeys

C7_Witness ==
  ProxyLost /\ Finished /\ StoreHeld /\ FailedWithoutKeys /\ pipe.proxyStatus = "Error"

\* C8: once the pipeline has finished, whatever failed on the way, the stored asset
\* is never left at proxyStatus pending or processing
C8_NeverLeftPendingOrProcessing ==
  Finished => persisted.proxyStatus \notin {"pending", "processing"}

\* C9: when the proxy job was polled as Complete and the submission of the thumbnail
\* job raised, the pipeline still ends with proxyStatus ready and the proxy key set
\* (the store taking every write)
C9_ThumbnailSubmitIsBestEffort ==
  (Finished /\ StoreHeld /\ pipe.proxyStatus = "Complete" /\ "thumbSubmitRejected" \in trace)
    => /\ persisted.proxyStatus = "ready"
       /\ "proxyKey" \in DOMAIN persisted

\* ------------------------------------------- two updateAsset calls at once

\* both callers updated the same asset, both read before either wrote its batch,
\* and both have returned
Interleaved ==
  /\ \A c \in Callers : calls[c].pc = "returned" /\ calls[c].rank > 0
  /\ \E c \in Callers : calls[c].overlapped
  /\ calls["A"].id = calls["B"].id

\* the caller whose batch ran first, and the one whose batch ran last
earlier == CHOOSE c \in Callers : calls[c].rank = 1
later == CHOOSE c \in Callers : calls[c].rank = 2

\* what the later call alone would have made of the keyspace it read
laterAlone == updateAsset(calls[later].snapshot, calls[later].id, calls[later].updates).redis

bothBatches ==
  updateAssetPipeline(
    updateAssetPipeline(calls[earlier].snapshot, calls[earlier].id,
                        calls[earlier].existing, calls[earlier].updates),
    calls[later].id, calls[later].existing, calls[later].updates)

\* the words under which the search index lists an asset
wordsListing(r, id) == {w \in DOMAIN r.searchWord : id \in smembers(r.searchWord, w)}

foregroundFields == {"title", "description", "tags", "customMeta"}
backgroundFields == {"proxyStatus", "proxyKey", "thumbnailKey"}

\* caller f's call is a metadata edit, caller b's a pipeline write, of the same
\* asset, interleaved, and both have returned
EditMeetsPipeline(f, b) ==
  /\ Interleaved
  /\ DOMAIN calls[f].updates \subseteq foregroundFields
  /\ DOMAIN calls[b].updates \subseteq backgroundFields

\* C11: after a pipeline write and a metadata edit of the same asset that interleave
\* have both returned, the stored record holds the edit's fields together with the
\* pipeline's proxyStatus, and the search index and the tag counters match the
\* stored record
C11_EditAndPipelineReconcile ==
  \A f, b \in Callers :
    EditMeetsPipeline(f, b) =>
      LET stored == getAsset(redis, calls[f].id)
      IN /\ \A k \in DOMAIN calls[f].updates : stored[k] = calls[f].updates[k]
         /\ stored.proxyStatus = calls[b].updates.proxyStatus
         /\ wordsListing(redis, calls[f].id) = wordsOf(stored)
         /\ tagCountersRederived(redis)

\* ----------------------------------------------- provisioning calls at once

\* both callers provisioned the same instance, both calls are over, and no create
\* call failed for a passing reason
EnsuredTogether ==
  /\ \A c \in Callers : ensure[c].pc \in {"returned", "threw"}
  /\ ensure["A"].service = ensure["B"].service
  /\ \A c \in Callers : "transient" \notin ensure[c].failures
  /\ \A c \in Callers : ensure[c].thrown \notin {"lookupFailed", "notReady"}

\* no two instances of one service have the same name
NoDuplicateInstances ==
  \A i, j \in 1..Len(instances) : instances[i] = instances[j] => i = j

\* C12: ensureMinioInstance (or ensureValkeyInstance) calls that run at the same time
\* for one name never create two instances of it and all return connection facts,
\* a create call that finds the name taken counting as success
C12_EnsureIsRaceTolerant ==
  EnsuredTogether =>
    /\ NoDuplicateInstances
    /\ \A c \in Callers : ensure[c].pc = "returned"

\* ------------------------------------------------- calls on collections

\* record after differs from record before in the fields named at most, and has
\* the same fields
sameExcept(before, after, fields) ==
  /\ DOMAIN after = DOMAIN before
  /\ \A f \in DOMAIN before \ fields : after[f] = before[f]

\* deleteCollection(c) on keyspace r: true is returned, the record, the index entry
\* and the membership set of c are gone, and every asset that was a member has c
\* taken out of its collections field and is otherwise as it was, updatedAt apart
DeleteCascades(r, c) ==
  LET res == deleteCollection(r, c)
      after == res.redis
  IN /\ res.ret = TRUE
     /\ c \notin DOMAIN after.collection
     /\ c \notin zmembers(after.collectionsIndex)
     /\ c \notin DOMAIN after.assetsByCollection
     /\ liveAssets(after) = liveAssets(r)
     /\ \A a \in smembers(r.assetsByCollection, c) :
          /\ a \in liveAssets(after)
          /\ ~includes(after.asset[a].collections, c)
          /\ after.asset[a].collections = filterNotIn(r.asset[a].collections, <<c>>)
          /\ sameExcept(r.asset[a], after.asset[a], {"collections", "updatedAt"})
     /\ \A a \in liveAssets(r) \ smembers(r.assetsByCollection, c) :
          after.asset[a] = r.asset[a]

\* C13: in every keyspace the asset and collection calls lead to, deleting a
\* collection that exists returns true, removes its record, its index entry and its
\* membership set, and leaves each of its member assets with the collection id
\* removed from collections and every other field but updatedAt unchanged
C13_DeleteCollectionCascades ==
  \A c \in DOMAIN redis.collection : DeleteCascades(redis, c)

\* C13 witness: a collection with two member assets, one of them in it since
\* createAsset and one added later, whose deletion cascades
C13_Witness ==
  \E c \in DOMAIN redis.collection :
    /\ Cardinality(smembers(redis.assetsByCollection, c)) = 2
    /\ last.op = "addAssetToCollection"
    /\ last.collection = c
    /\ DeleteCascades(redis, c)

\* how many times x occurs in list
RECURSIVE occurrences(_, _)
occurrences(list, x) ==
  IF list = <<>> THEN 0
  ELSE (IF Head(list) = x THEN 1 ELSE 0) + occurrences(Tail(list), x)

\* a second addAssetToCollection(c, a) after one that returned changes nothing, and
\* after the first the collections field of a has c once
AddTwiceIsAddOnce(r, c, a) ==
  LET once == addAssetToCollection(r, c, a)
      twice == addAssetToCollection(once.redis, c, a)
  IN once.ret = "void" =>
       /\ twice.ret = "void"
       /\ smembers(twice.redis.assetsByCollection, c) = smembers(once.redis.assetsByCollection, c)
       /\ twice.redis.asset[a].collections = once.redis.asset[a].collections
       /\ occurrences(twice.redis.asset[a].collections, c) = 1
       /\ twice.redis.collection[c].assetCount = once.redis.collection[c].assetCount
       /\ twice.redis = once.redis

\* removeAssetFromCollection(c, a) when a is not in the membership set of c
RemoveNonMemberIsNoOp(r, c, a) ==
  a \notin smembers(r.assetsByCollection, c) => removeAssetFromCollection(r, c, a).redis = r

\* C14: in every keyspace the asset and collection calls lead to, calling
\* addAssetToCollection twice with the same ids leaves the membership set, the
\* asset's collections field (the id once) and the assetCount that one call
\* leaves, and removeAssetFromCollection of a non-member changes nothing
C14_AddIsIdempotent ==
  \A c \in CollectionIds, a \in AssetIds :
    AddTwiceIsAddOnce(redis, c, a) /\ RemoveNonMemberIsNoOp(redis, c, a)

\* C14 witness: the call that returned last added an asset to a collection, and the
\* same call again leaves the keyspace as it is
C14_Witness ==
  /\ last.op = "addAssetToCollection"
  /\ last.ret = "void"
  /\ last.asset \in smembers(redis.assetsByCollection, last.collection)
  /\ redis.collection[last.collection].assetCount = 1
  /\ occurrences(redis.asset[last.asset].collections, last.collection) = 1
  /\ addAssetToCollection(redis, last.collection, last.asset).redis = redis

\* the errors addAssetToCollection and removeAssetFromCollection throw
notFoundErrors == {"Collection not found", "Asset not found"}

\* the collection record or the asset record is absent
EitherAbsent(r, c, a) == getCollection(r, c) = Null \/ getAsset(r, a) = Null

\* C15: in every keyspace the asset and collection calls lead to, and for every pair
\* of ids of which the collection record or the asset record is absent,
\* addAssetToCollection and removeAssetFromCollection throw a not-found error and
\* leave every stored key as it was
C15_NotFoundChangesNothing ==
  \A c \in CollectionIds, a \in AssetIds :
    EitherAbsent(redis, c, a) =>
      /\ addAssetToCollection(redis, c, a).ret \in notFoundErrors
      /\ addAssetToCollection(redis, c, a).redis = redis
      /\ removeAssetFromCollection(redis, c, a).ret \in notFoundErrors
      /\ removeAssetFromCollection(redis, c, a).redis = redis

\* C15 witness: the call that returned last threw Asset not found, on a collection
\* that exists and has a member
C15_Witness ==
  /\ last.op = "removeAssetFromCollection"
  /\ last.ret = "Asset not found"
  /\ getAsset(redis, last.asset) = Null
  /\ getCollection(redis, last.collection) # Null
  /\ smembers(redis.assetsByCollection, last.collection) # {}

\* ------------------------------------------------------- absent entities

\* the six calls that answer null or false for an id without a record
AbsentIsNullOrFalse(r, c, a) ==
  /\ getAsset(r, a) = Null =>
       /\ \A updates \in TextUpdates \cup MemberUpdates(MaxColls) : updateAsset(r, a, updates).ret = Null
       /\ deleteAsset(r, a).ret = FALSE
  /\ getCollection(r, c) = Null =>
       /\ \A updates \in CoverUpdates : updateCollection(r, c, updates).ret = Null
       /\ deleteCollection(r, c).ret = FALSE

\* C16 as the specification words it: for an id without a record every call of the
\* store that takes an entity id answers null or false and none throws
C16_AbsentIsNeverRaised ==
  \A c \in CollectionIds, a \in AssetIds :
    /\ AbsentIsNullOrFalse(redis, c, a)
    /\ EitherAbsent(redis, c, a) =>
         /\ addAssetToCollection(redis, c, a).ret \notin notFoundErrors
         /\ removeAssetFromCollection(redis, c, a).ret \notin notFoundErrors

\* C16, amended: for an id without a record getAsset, updateAsset, getCollection and
\* updateCollection answer null and deleteAsset and deleteCollection answer false,
\* while addAssetToCollection and removeAssetFromCollection throw an Error, naming
\* the collection when its record is absent and the asset otherwise
C16_AbsentIsNullFalseOrThrown ==
  \A c \in CollectionIds, a \in AssetIds :
    /\ AbsentIsNullOrFalse(redis, c, a)
    /\ getCollection(redis, c) = Null =>
         /\ addAssetToCollection(redis, c, a).ret = "Collection not found"
         /\ removeAssetFromCollection(redis, c, a).ret = "Collection not found"
    /\ (getCollection(redis, c) # Null /\ getAsset(redis, a) = Null) =>
         /\ addAssetToCollection(redis, c, a).ret = "Asset not found"
         /\ removeAssetFromCollection(redis, c, a).ret = "Asset not found"

\* C16 witness: the call that returned last threw Collection not found for a
\* collection that was deleted, on an asset that exists
C16_Witness ==
  /\ last.op = "addAssetToCollection"
  /\ last.ret = "Collection not found"
  /\ last.collection <= uuid.collection
  /\ getCollection(redis, last.collection) = Null
  /\ getAsset(redis, last.asset) # Null
  /\ updateCollection(redis, last.collection, [coverAssetId |-> last.asset]).ret = Null

\* ------------------------------------------- taking a member out of a collection

\* asset a is a member of collection c and both records exist
IsMember(r, c, a) ==
  /\ getCollection(r, c) # Null
  /\ getAsset(r, a) # Null
  /\ a \in smembers(r.assetsByCollection, c)

\* the cover asset of a collection record, 0 when it has none
coverOf(collection) ==
  IF "coverAssetId" \in DOMAIN collection THEN collection.coverAssetId ELSE 0

\* removeAssetFromCollection(c, a) on keyspace r takes a out of the membership set of
\* c and c out of the collections field of a, lowers assetCount by one unless it is
\* 0, and clears coverAssetId when it is a and only then
RemovesMember(r, c, a) ==
  LET res == removeAssetFromCollection(r, c, a)
      before == r.collection[c]
      after == res.redis.collection[c]
  IN /\ res.ret = "void"
     /\ a \notin smembers(res.redis.assetsByCollection, c)
     /\ smembers(res.redis.assetsByCollection, c) = smembers(r.assetsByCollection, c) \ {a}
     /\ ~includes(res.redis.asset[a].collections, c)
     /\ sameExcept(r.asset[a], res.redis.asset[a], {"collections", "updatedAt"})
     /\ after.assetCount = (IF before.assetCount > 0 THEN before.assetCount - 1 ELSE 0)
     /\ after.assetCount >= 0
     /\ coverOf(after) = (IF coverOf(before) = a THEN 0 ELSE coverOf(before))
     /\ \A f \in DOMAIN before \ {"assetCount", "updatedAt", "coverAssetId"} :
          f \in DOMAIN after /\ after[f] = before[f]

\* C17: in every keyspace the calls lead to, removeAssetFromCollection(C, A) for a
\* member A of C removes A from the membership set of C and C from the collections
\* field of A, lowers the assetCount of C by one but not below 0, clears
\* coverAssetId when it is A and leaves a coverAssetId naming another asset
C17_RemoveUpdatesAllThree ==
  \A c \in CollectionIds, a \in AssetIds : IsMember(redis, c, a) => RemovesMember(redis, c, a)

\* C17 witness: a collection whose assetCount is 0 although it has two members, one
\* of them its cover asset; taking either out obeys the claim
C17_Witness ==
  \E c \in CollectionIds, a, b \in AssetIds :
    /\ a # b
    /\ IsMember(redis, c, a)
    /\ IsMember(redis, c, b)
    /\ coverOf(redis.collection[c]) = a
    /\ redis.collection[c].assetCount = 0
    /\ RemovesMember(redis, c, a)
    /\ RemovesMember(redis, c, b)

\* ------------------------------------------------------ the tag counters

\* the tags getAllTags lists: every member of tags:all, whatever its score
tagsListed(r) == DOMAIN r.tagsAll

\* C18: after any createAsset, updateAsset or deleteAsset call has returned, tags:all
\* has no entry with a score of 0 or less, and getAllTags lists no tag that no live
\* asset carries
C18_NoDeadTagCounters ==
  /\ \A tag \in DOMAIN redis.tagsAll : redis.tagsAll[tag] > 0
  /\ \A tag \in tagsListed(redis) : carriers(redis, tag) # {}

\* ------------------------------------------------------- partial updates

\* updateAsset(a, updates) on keyspace r returns the record it stores; the record
\* has the supplied fields, every other field as before, id and createdAt as
\* before whatever was supplied, and updatedAt set to the clock
UpdateKeepsTheRest(r, a, updates) ==
  LET existing == getAsset(r, a)
      res == updateAsset(r, a, updates)
  IN /\ res.ret # Null
     /\ getAsset(res.redis, a) = res.ret
     /\ DOMAIN res.ret = DOMAIN existing \cup DOMAIN updates
     /\ \A f \in DOMAIN existing \ (DOMAIN updates \cup {"updatedAt"}) : res.ret[f] = existing[f]
     /\ \A f \in DOMAIN updates \ {"id", "createdAt", "updatedAt"} : res.ret[f] = updates[f]
     /\ res.ret.id = existing.id
     /\ res.ret.id = a
     /\ res.ret.createdAt = existing.createdAt
     /\ res.ret.updatedAt = toISOString(now)

\* C19: updateAsset on an existing asset returns and stores a record in which every
\* field the updates leave out keeps its value, id and createdAt keep theirs even
\* when the updates supply others, and updatedAt is the time of the call
C19_UpdateKeepsOmittedFields ==
  \A a \in liveAssets(redis), updates \in StampUpdates : UpdateKeepsTheRest(redis, a, updates)

\* C19 witness: an asset created at an earlier time than it was last updated, while
\* the clock has moved on again; updates that supply id and createdAt leave both
C19_Witness ==
  /\ last.op = "updateAsset"
  /\ last.ret = "asset"
  /\ redis.asset[last.asset].createdAt = toISOString(0)
  /\ redis.asset[last.asset].updatedAt = toISOString(1)
  /\ redis.asset[last.asset].proxyStatus = "ready"
  /\ now = 2
  /\ UpdateKeepsTheRest(redis, last.asset,
                        [id |-> MaxAssets + 1, createdAt |-> toISOString(MaxClock + 1)])

\* ------------------------------------------- calls on ids without a record

\* on keyspace r, the four mutating calls that take one id return null or false and
\* leave r as it is when the id has no record
NotFoundIsNoOp(r, c, a) ==
  /\ getAsset(r, a) = Null =>
       /\ \A updates \in TextUpdates \cup MemberUpdates(MaxColls) :
            updateAsset(r, a, updates) = [redis |-> r, ret |-> Null]
       /\ deleteAsset(r, a) = [redis |-> r, ret |-> FALSE]
  /\ getCollection(r, c) = Null =>
       /\ \A updates \in CoverUpdates \cup {[name |-> "renamed"]} :
            updateCollection(r, c, updates) = [redis |-> r, ret |-> Null]
       /\ deleteCollection(r, c) = [redis |-> r, ret |-> FALSE]

\* C20: updateAsset, deleteAsset, updateCollection and deleteCollection called with
\* an id that has no record return null or false and touch no record, ordering
\* index, tag counter, membership set or search-word set
C20_NotFoundTouchesNothing ==
  \A c \in CollectionIds, a \in AssetIds : NotFoundIsNoOp(redis, c, a)

\* C20 witness: deleteCollection has just returned false for the id of a deleted
\* collection whose membership set has a member again, and deleteAsset of a
\* deleted asset's id would return false as well
C20_Witness ==
  /\ last.op = "deleteCollection"
  /\ last.ret = "false"
  /\ smembers(redis.assetsByCollection, last.collection) # {}
  /\ \E a \in 1..uuid.asset : getAsset(redis, a) = Null /\ ~deleteAsset(redis, a).ret

\* ------------------------------------------- createAsset read back by getAsset

\* the ids crypto.randomUUID has handed out to createAsset so far
issuedIds == 1..uuid.asset

\* on keyspace r, createAsset(input) followed by getAsset(returned id) yields the
\* input in every supplied field, extended by exactly id, createdAt and updatedAt,
\* with createdAt = updatedAt and an id never issued before
CreateThenGet(r, input) ==
  LET res == createAsset(r, uuid.asset + 1, input)
      got == getAsset(res.redis, res.ret.id)
  IN /\ got # Null
     /\ DOMAIN got = DOMAIN input \cup {"id", "createdAt", "updatedAt"}
     /\ \A f \in DOMAIN input : got[f] = input[f]
     /\ got.id = res.ret.id
     /\ got.createdAt = got.updatedAt
     /\ got.createdAt = toISOString(now)
     /\ got.id \notin issuedIds

\* the inputs all of whose numbers are finite
JsonInputs == {input \in RoundInputs : isFinite(input.fileSize)}

found(res) == { res.assets[i].id : i \in 1..Len(res.assets) }

\* the upper-case letters that toLowerCase maps to c
upperOf(c) == { u \in DOMAIN UpperToLower : UpperToLower[u] = c }

\* word in every letter case: each letter as it is or as its upper-case letter
RECURSIVE caseVariants(_)
caseVariants(word) ==
  IF word = <<>> THEN {<<>>}
  ELSE { <<c>> \o v : c \in {Head(word)} \cup upperOf(Head(word)),
                       v \in caseVariants(Tail(word)) }

SeveralWords ==
  {[query |-> QueryBigB2, words |-> {<<"b", "i", "g">>, <<"b", "2">>}],
   [query |-> QueryB2Ab, words |-> {<<"b", "2">>, <<"a", "b">>}],
   [query |-> QueryBigZz, words |-> {<<"b", "i", "g">>, <<"z", "z">>}],
   [query |-> QueryBigAB2, words |-> {<<"b", "i", "g">>, <<"b", "2">>}],
   [query |-> QueryABig, words |-> {<<"b", "i", "g">>}],
   [query |-> TitleBigB2, words |-> {<<"b", "i", "g">>, <<"b", "2">>}]}

\* C23: for a query with several usable tokens the set of assets searchAssets
\* matches is the intersection of the sets matched by each token searched alone;
\* tokens shorter than 2 characters in the query are ignored.
C23_SearchIsIntersection ==
  \A q \in SeveralWords :
    LET res == searchAssets(redis, q.query, <<>>)
        each == { a \in liveAssets(redis) :
                   \A w \in q.words : a \in found(searchAssets(redis, w, <<>>)) }
    IN /\ found(res) = each
       /\ res.total = Cardinality(each)

\* C23 witness: the search for "big a B2" has returned one asset, while big alone
\* matches two assets and b2 alone matches one
C23_Witness ==
  /\ listed.op = "searchAssets"
  /\ listed.query = QueryBigAB2
  /\ listed.total = 1
  /\ Cardinality(found(searchAssets(redis, <<"b", "i", "g">>, <<>>))) = 2
  /\ found(searchAssets(redis, <<"b", "2">>, <<>>)) = found(listed)

\* ------------------------------------------------------------------ paging

\* the call that returned last, made again with field set to value
again(field, value) ==
  LET opts == [f \in DOMAIN listed.opts \cup {field} |->
                 IF f = field THEN value ELSE listed.opts[f]]
  IN IF listed.op = "listAssets" THEN listAssets(redis, opts)
     ELSE searchAssets(redis, listed.query, opts)

\* C24: for every integer page and limit, listAssets and searchAssets use limit
\* clamped to [1,100] (default 20) and page clamped to >= 1 (default 1): limit 200
\* returns at most 100 assets, limit 0 or negative at most 1, and page 0 or
\* negative returns the same assets as page 1.
C24_PageAndLimitAreClamped ==
  listed.op \in {"listAssets", "searchAssets"} =>
    LET limit == orDefault(listed.opts, "limit", 20)
        page == orDefault(listed.opts, "page", 1)
    IN /\ Len(listed.assets) <= 100
       /\ limit \in 1..100 => Len(listed.assets) <= limit
       /\ limit <= 0 => Len(listed.assets) <= 1 /\ listed.assets = again("limit", 1).assets
       /\ limit >= 100 => listed.assets = again("limit", 100).assets
       /\ "limit" \notin DOMAIN listed.opts => listed.assets = again("limit", 20).assets
       /\ page <= 0 => listed.assets = again("page", 1).assets
       /\ "page" \notin DOMAIN listed.opts => listed.assets = again("page", 1).assets
       /\ listed.total = Cardinality(liveAssets(redis))

\* C24 witness: listAssets({page: 0, limit: 200}) has returned 100 of the assets
\* there are, the ones page 1 holds, and page 2 holds the rest
C24_Witness ==
  /\ listed.op = "listAssets"
  /\ listed.opts = [page |-> 0, limit |-> 200]
  /\ Len(listed.assets) = 100
  /\ listed.total > 100
  /\ listed.assets = listAssets(redis, [page |-> 1, limit |-> 100]).assets
  /\ Len(listAssets(redis, [page |-> 2, limit |-> 200]).assets) = listed.total - 100

\* ------------------------------------------------- assets that are not videos

\* triggerProxyGeneration was called for an asset whose MIME type does not start
\* with video/
NonVideo == pipe.pc # "idle" /\ ~(pipe.asset.mimeType \in {"video/mp4"})

jobEvents == {"proxySubmitted", "proxySubmitRejected", "thumbSubmitted", "thumbSubmitRejected"}

\* C25: for an asset whose MIME type does not start with video/,
\* triggerProxyGeneration sets proxyStatus = none and returns without submitting,
\* polling or removing any job; proxyStatus never becomes processing, ready or
\* failed for it (once it has returned the stored status is none, until then it
\* is pending or none).
C25_NonVideoIsMarkedNone ==
  NonVideo =>
    /\ pipe.pc \in {"start", "done", "rejected"}
    /\ jobs = <<>>
    /\ trace \cap jobEvents = {}
    /\ pipe.proxyJobName = NoJobName /\ pipe.thumbJobName = NoJobName
    /\ pipe.proxyStatus = "" /\ pipe.thumbStatus = ""
    /\ persisted # Null => persisted.proxyStatus \in {"pending", "none"}
    /\ (pipe.pc = "done" /\ persisted # Null) => persisted.proxyStatus = "none"

\* C25 witness: triggerProxyGeneration has returned for an image, which is stored
\* with proxyStatus none, and the platform holds no job
C25_Witness ==
  /\ pipe.pc = "done"
  /\ pipe.asset.mimeType = "image/png"
  /\ persisted # Null
  /\ persisted.proxyStatus = "none"
  /\ jobs = <<>>
  /\ trace = {}

\* ------------------------------------------------- one provisioning call

RetryIsBounded(e) ==
  /\ e.invocations <= RETRY_MAX_ATTEMPTS
  /\ e.invocations = Len(e.errors) + (IF e.created THEN 1 ELSE 0)
  /\ e.delays = [k \in 1..Len(e.errors) |-> 1000 * 2^(k - 1)]
  /\ (e.pc = "create") => ~e.created /\ Len(e.errors) < 3
  /\ (e.pc = "threw" /\ e.thrown \notin {"lookupFailed", "notReady"}) =>
        /\ Len(e.errors) = 3
        /\ ~e.created
        /\ e.thrown = e.errors[3]

\* C27: withRetry invokes the wrapped operation at most 3 times, stops at the
\* first success and returns its result, waits 1000 * 2^k ms after the k-th failed
\* attempt (k = 0, 1, 2), and after the third failure surfaces the last error to
\* the caller; it always terminates.
C27_RetryIsBoundedAndEnds ==
  /\ [](\A c \in Callers : RetryIsBounded(ensure[c]))
  /\ \A c \in Callers : (ensure[c].pc = "create") ~> (ensure[c].pc # "create")

\* C27 witness: three attempts have failed, the last one for another reason than
\* the first, the waits were 1000, 2000 and 4000 ms, and the last error was thrown
C27_Witness ==
  \E c \in Callers :
    /\ ensure[c].pc = "threw"
    /\ ensure[c].invocations = 3
    /\ ensure[c].delays = <<1000, 2000, 4000>>
    /\ ensure[c].errors = <<"transient", "transient", "exists">>
    /\ ensure[c].thrown = "exists"

\* ------------------------------------------------- submitting an FFmpeg job

\* names that do not match /^[a-z0-9]+$/
BadJobNames ==
  {<<>>, <<"A", "b">>, <<"a", "-", "b">>, <<"a", "_", "b">>, <<"a", " ">>,
   <<"a", ".", "b">>, <<"U+00E9">>, <<"a", "LF">>}

\* C28: createFfmpegJob called with a name that does not match ^[a-z0-9]+$ fails
\* with an explicit error before any call to the platform (no token is requested,
\* no job is submitted); with a matching name the job is submitted and its initial
\* reported status returned (the platform taking the call and the name being free).
C28_JobNameIsCheckedFirst ==
  /\ \A name \in BadJobNames, reachable \in BOOLEAN :
        LET res == createFfmpegJob(jobs, name, reachable)
        IN /\ res.threw
           /\ res.error = "invalid job name"
           /\ res.platformCalls = {}
           /\ res.jobs = jobs
  /\ \A name \in {JobA, JobP0} \ DOMAIN jobs :
        LET res == createFfmpegJob(jobs, name, TRUE)
        IN /\ ~res.threw
           /\ "createInstance" \in res.platformCalls
           /\ DOMAIN res.jobs = DOMAIN jobs \cup {name}
           /\ res.status = res.jobs[name]
  /\ last.op = "createFfmpegJob" =>
        /\ last.name \in BadJobNames => last.ret = "invalid job name" /\ last.platformCalls = {}
        /\ DOMAIN jobs \cap BadJobNames = {}

\* C28 witness: createFfmpegJob has just refused the name "a-b" without a call to
\* the platform, while a job submitted earlier under a matching name is there
C28_Witness ==
  /\ last.op = "createFfmpegJob"
  /\ last.name = <<"a", "-", "b">>
  /\ last.ret = "invalid job name"
  /\ last.platformCalls = {}
  /\ JobP0 \in DOMAIN jobs

\* ------------------------------------------------- waiting for an FFmpeg job

\* C29: waitForFfmpegJob never raises and returns only one of Complete, Failed,
\* Error or timeout; a status query that fails or finds no job counts as unknown
\* (non-terminal) and polling continues; a terminal status is returned only when
\* the platform reported exactly that status on the latest query.
C29_WaitReturnsWhatWasReported ==
  /\ wait.pc # "raised"
  /\ wait.pc = "returned" => wait.result \in {"Complete", "Failed", "Error", "timeout"}
  /\ (wait.queries > 0 /\ wait.reported = "none") =>
        /\ wait.latest = "unknown"
        /\ wait.pc = "polling" \/ wait.result = "timeout"
  /\ (wait.pc = "returned" /\ wait.result # "timeout") =>
        /\ wait.queries > 0
        /\ wait.reported = wait.result
        /\ wait.latest = wait.result

\* C29 witness: the call has returned Failed after a query that got no answer
\* and one more query
C29_Witness ==
  /\ wait.pc = "returned"
  /\ wait.result = "Failed"
  /\ wait.reported = "Failed"
  /\ wait.queries = 2
  /\ now = wait.startTime + 2000

\* the smallest whole number that is at least a / b, for b > 0
ceilDiv(a, b) == (a + b - 1) \div b

\* the call makes no more status queries than its maximum wait allows, and
\* returns timeout only when the maximum wait has elapsed
WaitIsBounded ==
  wait.pc # "idle" =>
    /\ wait.maxWaitMs <= 0 => wait.queries = 0
    /\ wait.maxWaitMs > 0 => wait.queries <= ceilDiv(wait.maxWaitMs, 2000)
    /\ wait.result = "timeout" =>
          /\ wait.pc = "returned"
          /\ now - wait.startTime >= wait.maxWaitMs
          /\ now - wait.startTime < wait.maxWaitMs + 2000 \/ wait.queries = 0
    /\ (wait.pc = "returned" /\ wait.latest \notin {"Complete", "Failed", "Error"}) =>
          wait.result = "timeout"

\* C30: waitForFfmpegJob always terminates: when the job never reports a terminal
\* status it returns timeout once maxWait has elapsed, after at most
\* ceil(maxWait / poll interval) status queries; with maxWait <= 0 it returns
\* timeout without querying at all.
C30_WaitEnds ==
  /\ []WaitIsBounded
  /\ (wait.pc = "polling") ~> (wait.pc = "returned")

\* C30 witness: with a maximum wait of one ms more than one poll interval the
\* call has asked twice, seen Running and Suspended, and returned timeout
C30_Witness ==
  /\ wait.pc = "returned"
  /\ wait.maxWaitMs = 2001
  /\ wait.queries = 2
  /\ wait.latest \in {"Running", "Suspended"}
  /\ wait.result = "timeout"
  /\ now - wait.startTime = 4000

\* ------------------------------------------------- removing an FFmpeg job

\* what makes triggerProxyGeneration enter its catch handler
catchCauses == {"storeRejected", "proxySubmitRejected", "thumbSubmitRejected"}

removeFailures == {"proxyRemoveFailed", "thumbRemoveFailed"}

\* C31: removeFfmpegJob never raises, whether the token request or the removal
\* fails, so a failed cleanup never sends the pipeline to its catch handler: a
\* pipeline whose store and submission calls all went through ends ready when the
\* proxy job was polled as Complete and failed otherwise, cleanup failed or not.
C31_CleanupNeverChangesOutcome ==
  /\ \A name \in DOMAIN jobs \cup {pipe.proxyJobName, pipe.thumbJobName} :
        \A outcome \in RemoveOutcomes : ~removeFfmpegJob(jobs, name, outcome).threw
  /\ pipe.pc = "catch" => trace \cap catchCauses # {}
  /\ (Finished /\ trace \cap catchCauses = {} /\ pipe.proxyStatus # "") =>
        persisted.proxyStatus = (IF pipe.proxyStatus = "Complete" THEN "ready" ELSE "failed")

\* C31 witness: neither job could be removed, both are still on the platform, and
\* the pipeline has ended ready with the thumbnail key
C31_Witness ==
  /\ Finished
  /\ removeFailures \subseteq trace
  /\ trace \cap catchCauses = {}
  /\ persisted.proxyStatus = "ready"
  /\ "thumbnailKey" \in DOMAIN persisted
  /\ {pipe.proxyJobName, pipe.thumbJobName} \subseteq DOMAIN jobs

\* ------------------------------------------------- the response to confirm-upload

\* C32: from the moment the pipeline is launched, and whatever it does afterwards
\* (its writes rejected, its jobs refused, its promise rejected), the response to
\* confirm-upload is 200 with the asset createAsset returned, proxyStatus pending;
\* what became of the pipeline shows in the stored proxyStatus alone.
C32_ResponseIsDetached ==
  pipe.pc # "idle" =>
    /\ pipe.response.status = 200
    /\ pipe.response.body = [ok |-> TRUE, asset |-> pipe.asset]
    /\ pipe.response.body.asset.proxyStatus = "pending"
    /\ (pipe.pc = "start" /\ persisted # Null) => persisted.proxyStatus = "pending"

\* C32 witness: the promise of the pipeline was rejected (the write of none for an
\* image was refused by the store), the stored status is still pending, and the
\* response is the 200 that was sent before
C32_Witness ==
  /\ pipe.pc = "rejected"
  /\ "storeRejected" \in trace
  /\ persisted # Null
  /\ persisted.proxyStatus = "pending"
  /\ pipe.response.status = 200
  /\ pipe.response.body.asset.mimeType = "image/png"

\* ------------------------------------------------------- the client caches

\* the Map that holds the clients of a kind
cacheOf(c, kind) == IF kind = "Redis" THEN c.redisClients ELSE c.s3Clients

\* every entry of the Map before is in the Map after, with the same client
entriesKept(before, after) ==
  \A k \in DOMAIN before : k \in DOMAIN after /\ after[k] = before[k]

writeKind(c) ==
  IF c.cmd = "SET" THEN "record"
  ELSE IF c.cmd = "ZINCRBY" THEN "tag"
  ELSE IF c.family = "assetsByCollection" THEN "member"
  ELSE IF c.cmd = "SREM" THEN "searchRemove"
  ELSE "index"

\* the place of a kind of write in the order the claim gives
claimedPlace(kind) ==
  CHOOSE i \in 1..5 : <<"searchRemove", "tag", "member", "record", "index">>[i] = kind

\* C34: the writes of one updateAsset call take effect in the order removal of the
\* old search-word entries, tag-counter deltas, membership deltas, write of the
\* merged record, re-indexing: no write is executed after a write of a later kind.
C34_WritesInClaimedOrder ==
  run.op = "updateAsset" =>
    \A i, j \in 1..Len(run.done) :
      i < j => claimedPlace(writeKind(run.done[i])) <= claimedPlace(writeKind(run.done[j]))

\* ------------------------------------------- deleteAsset between two commands

\* the ordering index, a membership set or a search-word set holds the id
referenced(r, id) ==
  \/ id \in zmembers(r.assetsIndex)
  \/ \E c \in DOMAIN r.assetsByCollection : id \in r.assetsByCollection[c]
  \/ \E w \in DOMAIN r.searchWord : id \in r.searchWord[w]

\* C35: in no state between two store commands of deleteAsset (nor after the last)
\* is asset:<id> removed while the ordering index, a membership set or a
\* search-word set still holds the id.
C35_NoDanglingReference ==
  (run.op = "deleteAsset" /\ run.done # <<>> /\ run.id \notin DOMAIN redis.asset) =>
    ~referenced(redis, run.id)

\* ------------------------------------------- a search-index batch that is lost

\* C36: when the removal batch or the re-indexing batch of an updateAsset call
\* fails or is lost while its record write succeeds, the stored record is the
\* merged record, and the staleness ends with the next write: once the next
\* updateAsset of the asset has returned with all its batches applied, the
\* search-word sets hold the id under exactly the words of the stored record.
C36_IndexHealsAtNextWrite ==
  (last.op = "updateAsset" /\ last.ret # "null") =>
    /\ getAsset(redis, last.asset) = last.merged
    /\ (last.outcome = "ok" /\ last.before \in {"removalLost", "rejectedAfterWrite"}) =>
          wordsListing(redis, last.asset) = wordsOf(getAsset(redis, last.asset))

\* ------------------------------------------------- the denormalized counts

\* C37: after any sequence of createCollection, createAsset, updateAsset,
\* deleteAsset, addAssetToCollection and removeAssetFromCollection calls, the
\* assetCount of every live collection is the number of ids in its membership set.
C37_CountIsCardinality ==
  \A c \in DOMAIN redis.collection :
    redis.collection[c].assetCount = Cardinality(smembers(redis.assetsByCollection, c))

\* C39: the coverAssetId of a collection, when set, is the id of a live asset
\* that is a member of the collection: it does not outlive the membership or the
\* asset, and updateCollection cannot set it to a non-member.
C39_CoverIsLiveMember ==
  \A c \in DOMAIN redis.collection :
    coverOf(redis.collection[c]) # 0 =>
      /\ getAsset(redis, coverOf(redis.collection[c])) # Null
      /\ IsMember(redis, c, coverOf(redis.collection[c]))

\* ---------------------------------------- deleteAsset during an updateAsset

\* C38: a deleteAsset that completes while an updateAsset of the same asset is in
\* flight is final: once both have finished, asset:<id> does not exist, getAsset
\* returns null, and no ordering-index, tag-counter, membership or search-word
\* entry refers to the asset (the asset is the only one, so no tag is counted).
C38_DeleteIsFinal ==
  (/\ last.op = "deleteAsset" /\ last.ret = "true"
   /\ \A c \in Callers : calls[c].pc \in {"idle", "returned"}) =>
    /\ last.asset \notin DOMAIN redis.asset
    /\ getAsset(redis, last.asset) = Null
    /\ ~referenced(redis, last.asset)
    /\ DOMAIN redis.tagsAll = {}

\* ------------------------------------------------- the names of the jobs

\* C40: the job names submitted by pipelines that run side by side for different
\* assets are pairwise distinct, so no pipeline polls or removes a job that
\* another pipeline submitted.
C40_NamesAreDistinct ==
  \A c, d \in Callers :
    (c # d /\ tasks[c].pc # "idle" /\ tasks[d].pc # "idle"
           /\ tasks[c].asset.id # tasks[d].asset.id) =>
      /\ tasks[c].submitted \cap tasks[d].submitted = {}
      /\ tasks[c].polled \cap tasks[d].submitted = {}
      /\ tasks[c].removed \cap tasks[d].submitted = {}

====
